---- MODULE Spec2Model ----
(***************************************************************************)
(* State-machine model of the Ethereum scanning engine:                    *)
(*   - RPCClient (scan_eth_highperf_api.py): _post with retries and        *)
(*     endpoint rotation, call, batch;                                     *)
(*   - fetch_blocks (scan_eth_highperf_api.py): windows of 20 blocks run   *)
(*     concurrently under a semaphore;                                     *)
(*   - is_contract (scan_eth_public_rpc.py, batch_eth_stats_ai.py): the    *)
(*     address -> bool cache;                                              *)
(*   - scan_range (scan_eth_public_rpc.py): the aggregation pass.          *)
(* asyncio runs one coroutine at a time and switches only at an await, so  *)
(* every action below is the code between two awaits of one coroutine.     *)
(***************************************************************************)
EXTENDS Integers, Sequences, FiniteSets, TLC

VARIABLES
    n_endpoints,    \* len(self.endpoints)
    max_retries,    \* self.max_retries
    always_fail,    \* environment: indexes of the endpoints whose POST always fails
    flaky,          \* environment: TRUE when a POST to any endpoint may fail
    endpoint_idx,   \* self._endpoint_idx
    next_id,        \* self._id
    task,           \* the coroutines using the client: position, locals, history
    block_numbers,  \* fetch_blocks: the block_numbers argument
    concurrency,    \* fetch_blocks: the concurrency argument
    blocks,         \* fetch_blocks: the output buffer
    sem,            \* fetch_blocks: the free permits of the semaphore
    fetch,          \* fetch_blocks: position of the caller awaiting gather, its result,
                    \* and the order in which the windows finished
    contract_cache, \* the dict address.lower() -> bool shared by the is_contract calls
    cls,            \* the is_contract calls made so far: which script runs, how many
                    \* calls, the last call, and the first classification of each address
    scan,           \* scan_range: its options, the block and the step it is at
    sent_txs,                           \* scan_range: dict address -> count
    received_txs,                       \* scan_range: dict address -> count
    sent_to_contract_txs,               \* scan_range: dict address -> count
    internal_recv_from_contract_txs,    \* scan_range: dict address -> count
    seen_addrs,     \* scan_range: the set of addresses that get a row
    addrs_in_block, \* scan_range: the senders and recipients of the current block
    rows,           \* scan_range: the rows of the returned DataFrame
    observed,       \* the senders and recipients of the transactions counted so far
    tcall,          \* one use of the trace helpers: the requests try_trace_block made,
                    \* what it returned, and what count_internal_receives made of it
    lookup,         \* one use of the balance and code lookups: the addresses asked
                    \* for, what the node answered, and the mapping returned
    agg,            \* the aggregation of scan_range over a given list of blocks: the
                    \* blocks, the code of their recipients, the blocks still to do
    stats,          \* one use of classify_for_address: its arguments and its record
    getblock        \* one call of get_block_with_retries: its attempts and outcome

rpcVars == <<n_endpoints, max_retries, always_fail, flaky, endpoint_idx, next_id, task>>
fetchVars == <<block_numbers, concurrency, blocks, sem, fetch>>
cacheVars == <<contract_cache, cls>>
scanVars == <<scan, sent_txs, received_txs, sent_to_contract_txs,
              internal_recv_from_contract_txs, seen_addrs, addrs_in_block, rows, observed>>
helperVars == <<tcall, lookup>>
moreVars == <<agg, stats, getblock>>
vars == <<rpcVars, fetchVars, cacheVars, scanVars, helperVars, moreVars>>

----------------------------------------------------------------------------
(* Bounds of the model *)
MaxTasks == 2
MaxEndpoints == 2
MaxRetriesBound == 4
MaxCalls == 3
MaxConcurrency == 2
MaxWindows == 3
MaxClassify == 4
MaxBlocks == 2
MaxTxs == 2
MaxBalanceLimit == 2
MaxEntries == 2
MaxDepth == 3
MaxAmount == 17
MaxAddrs == 3
MaxBatchSize == 2
MaxAggBlocks == 3
MaxExt == 2
MaxInternal == 2
\* the largest max_retry of get_block_with_retries (its default is 6), and the
\* number of passes of its loop after which the model stops following a call
MaxBlockRetry == 6
AttemptCap == MaxBlockRetry + 3

Tasks == 1..MaxTasks
Params == {1, 2}

Max(S) == CHOOSE x \in S : \A y \in S : y <= x
Min(S) == CHOOSE x \in S : \A y \in S : x <= y
Range(s) == {s[i] : i \in DOMAIN s}

----------------------------------------------------------------------------
(* JSON values.  A value is a record [k, v]: Python's None, a result       *)
(* payload, a block, or the dict {"error": e} that batch() appends.        *)
NoneV == [k |-> "none", v |-> 0]
ResultV(p) == [k |-> "value", v |-> p]
ErrorV(e) == [k |-> "error", v |-> e]

(* One JSON-RPC response object: the keys "id", "error", "result" may each *)
(* be present or absent.                                                   *)
Item(id, has_error, error, has_result, result) ==
    [id |-> id, has_error |-> has_error, error |-> error,
     has_result |-> has_result, result |-> result]
EmptyItem == Item(0, FALSE, 0, FALSE, NoneV)

(* What a provider can answer to the request with parameter p. *)
Answers(p) ==
    { [has_error |-> FALSE, error |-> 0, has_result |-> TRUE, result |-> ResultV(p)],
      [has_error |-> FALSE, error |-> 0, has_result |-> TRUE, result |-> NoneV],
      [has_error |-> TRUE, error |-> p, has_result |-> FALSE, result |-> NoneV] }

AnswerItem(id, a) == Item(id, a.has_error, a.error, a.has_result, a.result)

(* A wire response: a JSON object (t = "dict"), a JSON array of response   *)
(* objects (t = "list"), or nothing yet (t = "none").                      *)
NoWire == [t |-> "none", obj |-> EmptyItem, items |-> <<>>, perm |-> FALSE]
DictWire(item) == [t |-> "dict", obj |-> item, items |-> <<>>, perm |-> FALSE]
ListWire(items, perm) == [t |-> "list", obj |-> EmptyItem, items |-> items, perm |-> perm]

----------------------------------------------------------------------------
(* Addresses are strings of characters; the letters have two cases.        *)
LowerChar(c) == CASE c = "A" -> "a" [] c = "B" -> "b" [] c = "C" -> "c" [] OTHER -> c
UpperChar(c) == CASE c = "a" -> "A" [] c = "b" -> "B" [] c = "c" -> "C" [] OTHER -> c

\* str.lower()
Lower(s) == [i \in 1..Len(s) |-> LowerChar(s[i])]

\* Web3.to_checksum_address: the lowercased address with the letters selected by its
\* hash in upper case (here the letters at the odd positions)
ToChecksum(s) ==
    [i \in 1..Len(s) |-> IF i % 2 = 1 THEN UpperChar(LowerChar(s[i])) ELSE LowerChar(s[i])]

\* the absent or empty address: tx.to of a contract creation
NoAddr == <<>>

\* the addresses of the modelled chain, lowercased, in the order of sorted()
SortedAddrs == << <<"a", "b">>, <<"b", "a">>, <<"c", "c">> >>
LowerAddrs == Range(SortedAddrs)

\* the spellings under which the transactions and callers name these addresses
RawAddrs == LowerAddrs \cup {<<"A", "b">>, <<"A", "B">>, <<"b", "A">>}

\* a dict as a function on its keys: d[k] = v
DictSet(d, k, v) == [x \in (DOMAIN d) \cup {k} |-> IF x = k THEN v ELSE d[x]]

----------------------------------------------------------------------------
(* RPCClient *)

\* _cur_endpoint: self.endpoints[self._endpoint_idx % len(self.endpoints)]
CurEndpoint(idx, n) == idx % n

\* _rotate_endpoint: self._endpoint_idx = (self._endpoint_idx + 1) % len(self.endpoints)
RotateEndpoint(idx, n) == (idx + 1) % n

\* _post: "if attempt >= 2 and len(self.endpoints) > 1"
ShouldRotate_first_failure(attempt, n) == attempt >= 1 /\ n > 1
ShouldRotate(attempt, n) == attempt >= 2 /\ n > 1

\* _post: "for attempt in range(1, self.max_retries + 1)": is there a next attempt
HasNextAttempt_one_more(attempt, retries) == attempt < retries + 1
HasNextAttempt(attempt, retries) == attempt < retries

\* _post: sleep = min(8.0, backoff_base * 2 ** (attempt - 1)), in hundredths of a
\* second with the default backoff_base of 0.75
BackoffCap == 800
BackoffBase == 75
Backoff(attempt) == Min({BackoffCap, BackoffBase * 2 ^ (attempt - 1)})

\* call: "if isinstance(res, dict) and 'error' in res: raise"
CallRaises_never(w) == FALSE
CallRaises(w) == (w.t = "dict" /\ w.obj.has_error) \/ w.t # "dict"

\* call: "return res.get('result')"
CallResult(w) == IF w.obj.has_result THEN w.obj.result ELSE NoneV

\* batch: "by_id = {item.get('id'): item for item in res}", then by_id.get(id, {})
ById(res, id) ==
    LET S == {j \in 1..Len(res) : res[j].id = id}
    IN IF S = {} THEN EmptyItem ELSE res[Max(S)]

\* batch: the entry appended to out for one response item
OutEntry(item) ==
    IF item.has_error THEN ErrorV(item.error)
    ELSE IF item.has_result THEN item.result ELSE NoneV

\* batch: the loop "for r in req" building out
BatchOut_positional(req, res) ==
    [i \in 1..Len(req) |-> IF i <= Len(res) THEN OutEntry(res[i]) ELSE NoneV]
BatchOut(req, res) ==
    [i \in 1..Len(req) |-> OutEntry(ById(res, req[i].id))]

----------------------------------------------------------------------------
(* The coroutines that use one RPCClient.  pc is the await a coroutine is  *)
(* suspended at; posts, fails, rots and sleeps count what its current      *)
(* _post has done so far.                                                  *)
IdleTask ==
    [pc |-> "idle", kind |-> "none", req |-> <<>>, attempt |-> 0, url |-> 0,
     posts |-> 0, fails |-> 0, rots |-> 0, sleeps |-> 0, slept |-> 0,
     wire |-> NoWire, out |-> <<>>]

\* _post, first iteration of the loop: url = self._cur_endpoint(), then the POST is sent
BeginPost(t, kind, req) ==
    task' = [task EXCEPT ![t] = [IdleTask EXCEPT
                !.pc = "posting", !.kind = kind, !.req = req, !.attempt = 1,
                !.url = CurEndpoint(endpoint_idx, n_endpoints)]]

\* _next_id for each request of a list of parameters
MakeReq(ps, id0) == [i \in 1..Len(ps) |-> [id |-> id0 + i, p |-> ps[i]]]

\* call(method, params) up to the POST
StartCall(t) ==
    /\ task[t].pc = "idle"
    /\ \E p \in Params :
          /\ next_id' = next_id + 1
          /\ BeginPost(t, "call", MakeReq(<<p>>, next_id))
    /\ UNCHANGED <<n_endpoints, max_retries, always_fail, flaky, endpoint_idx>>

CallLists == UNION {[1..n -> Params] : n \in 0..MaxCalls}

\* batch(calls) up to the POST; "if not calls: return []"
StartBatch(t) ==
    /\ task[t].pc = "idle"
    /\ \E ps \in CallLists :
          IF Len(ps) = 0
          THEN /\ task' = [task EXCEPT ![t] = [IdleTask EXCEPT !.pc = "returned", !.kind = "batch"]]
               /\ UNCHANGED next_id
          ELSE /\ next_id' = next_id + Len(ps)
               /\ BeginPost(t, "batch", MakeReq(ps, next_id))
    /\ UNCHANGED <<n_endpoints, max_retries, always_fail, flaky, endpoint_idx>>

\* _post: the POST raised (connection error, timeout, non-2xx status, malformed
\* body); the coroutine computes the backoff and awaits asyncio.sleep
PostFail(t) ==
    /\ task[t].pc = "posting"
    /\ task[t].url \in always_fail \/ flaky
    /\ task' = [task EXCEPT ![t].pc = "sleeping",
                            ![t].posts = @ + 1,
                            ![t].fails = @ + 1,
                            ![t].sleeps = @ + 1,
                            ![t].slept = Backoff(task[t].attempt)]
    /\ UNCHANGED <<n_endpoints, max_retries, always_fail, flaky, endpoint_idx, next_id>>

\* _post after the sleep: rotate, then either the next attempt (url read and POST
\* sent without an await in between) or the RuntimeError after the loop
Wake(t) ==
    /\ task[t].pc = "sleeping"
    /\ LET rot == ShouldRotate(task[t].attempt, n_endpoints)
           idx == IF rot THEN RotateEndpoint(endpoint_idx, n_endpoints) ELSE endpoint_idx
       IN /\ endpoint_idx' = idx
          /\ IF HasNextAttempt(task[t].attempt, max_retries)
             THEN task' = [task EXCEPT ![t].pc = "posting",
                                       ![t].attempt = @ + 1,
                                       ![t].url = CurEndpoint(idx, n_endpoints),
                                       ![t].rots = IF rot THEN @ + 1 ELSE @]
             ELSE task' = [task EXCEPT ![t].pc = "raised_transport",
                                       ![t].rots = IF rot THEN @ + 1 ELSE @]
    /\ UNCHANGED <<n_endpoints, max_retries, always_fail, flaky, next_id>>

(* The bodies a provider can send back for the request list req.           *)
Perms(n) == {f \in [1..n -> 1..n] : \A i, j \in 1..n : f[i] = f[j] => i = j}

\* one answer per request, in request order
AnswerLists(req) ==
    {[i \in 1..Len(req) |-> AnswerItem(req[i].id, as[i])] :
        as \in {f \in [1..Len(req) -> UNION {Answers(p) : p \in Params}] :
                    \A i \in 1..Len(req) : f[i] \in Answers(req[i].p)}}

Permuted(items, f) == [i \in 1..Len(items) |-> items[f[i]]]

\* the whole-request error object of a provider (no id)
ErrorObject == Item(0, TRUE, 0, FALSE, NoneV)

CallWires(req) ==
    {DictWire(AnswerItem(req[1].id, a)) : a \in Answers(req[1].p)}
        \cup {ListWire(<<>>, FALSE)}

BatchWires(req) ==
    {ListWire(Permuted(items, f), TRUE) : items \in AnswerLists(req), f \in Perms(Len(req))}
        \cup {ListWire(Tail(items), FALSE) : items \in AnswerLists(req)}
        \cup {DictWire(ErrorObject), DictWire(Item(0, FALSE, 0, TRUE, NoneV))}

\* call, after _post has returned res (lines 87-89)
FinishCall(tk, w) ==
    IF CallRaises(w)
    THEN [tk EXCEPT !.pc = "raised_rpc", !.posts = @ + 1, !.wire = w]
    ELSE [tk EXCEPT !.pc = "returned", !.posts = @ + 1, !.wire = w,
                    !.out = <<CallResult(w)>>]

\* batch, after _post has returned res (lines 97-111)
FinishBatch(tk, w) ==
    IF w.t # "list"
    THEN [tk EXCEPT !.pc = "raised_rpc", !.posts = @ + 1, !.wire = w]
    ELSE [tk EXCEPT !.pc = "returned", !.posts = @ + 1, !.wire = w,
                    !.out = BatchOut(tk.req, w.items)]

\* _post returns the JSON body of a successful POST to call, which handles it
PostOkCall(t) ==
    /\ task[t].pc = "posting"
    /\ task[t].kind = "call"
    /\ task[t].url \notin always_fail
    /\ \E w \in CallWires(task[t].req) :
          task' = [task EXCEPT ![t] = FinishCall(task[t], w)]
    /\ UNCHANGED <<n_endpoints, max_retries, always_fail, flaky, endpoint_idx, next_id>>

\* _post returns the JSON body of a successful POST to batch, which handles it
PostOkBatch(t) ==
    /\ task[t].pc = "posting"
    /\ task[t].kind = "batch"
    /\ task[t].url \notin always_fail
    /\ \E w \in BatchWires(task[t].req) :
          task' = [task EXCEPT ![t] = FinishBatch(task[t], w)]
    /\ UNCHANGED <<n_endpoints, max_retries, always_fail, flaky, endpoint_idx, next_id>>

\* no fetch_blocks call is in progress
NoFetch ==
    /\ block_numbers = <<>>
    /\ concurrency = 1
    /\ blocks = <<>>
    /\ sem = 0
    /\ fetch = [pc |-> "none", ret |-> <<>>, done |-> <<>>, writes |-> <<>>]

\* the record of one is_contract call: its argument, whether the address had been
\* classified before, and its outcome
NoCall == [addr |-> NoAddr, known |-> FALSE, outcome |-> "none", value |-> FALSE, issued |-> 0]

\* no is_contract call has been made
NoCache ==
    /\ contract_cache = <<>>
    /\ cls = [impl |-> "none", calls |-> 0, last |-> NoCall, first |-> <<>>]

\* scan_range is not running
(* What try_trace_block returns: the method tag with the payload, which is *)
(* null, a flat list or a sequence of trees; (None, None) has the tag      *)
(* "none".                                                                 *)
Trace(method, null, flat, trees) ==
    [method |-> method, null |-> null, flat |-> flat, trees |-> trees]
Unsupported == Trace("none", TRUE, <<>>, <<>>)

(* scan_range: the transaction the loop "for tx in txs" counted last, as   *)
(* the node spells its sender and recipient; NoTx after a transaction that *)
(* the success filter skipped, and what try_trace_block returned for the   *)
(* block that was finished last.  The loop variable is dead once the block *)
(* is finished and (method, payload) once a transaction of the next block  *)
(* is read: they are then NoTx and Unsupported.                            *)
Tx(from, to, counted) == [from |-> from, to |-> to, counted |-> counted]
NoTx == Tx(NoAddr, NoAddr, FALSE)

NoScan ==
    /\ scan = [pc |-> "none", check_success |-> FALSE, with_balances |-> FALSE,
               balance_limit |-> 0, trace_enabled |-> FALSE, bn |-> 0, end_block |-> 0,
               ntx |-> 0, tx |-> NoTx, trace |-> Unsupported]
    /\ sent_txs = <<>>
    /\ received_txs = <<>>
    /\ sent_to_contract_txs = <<>>
    /\ internal_recv_from_contract_txs = <<>>
    /\ seen_addrs = {}
    /\ addrs_in_block = {}
    /\ rows = <<>>
    /\ observed = {}

\* no trace helper and no lookup is in use
NoTraceCall ==
    [pc |-> "none", impl |-> "none", requests |-> <<>>, replies |-> <<>>,
     trace |-> Unsupported, target |-> NoAddr, result |-> [raised |-> FALSE, cnt |-> 0]]
NoLookup ==
    [pc |-> "none", fn |-> "none", addrs |-> <<>>, batch_size |-> 0, answers |-> <<>>,
     at |-> 0, out |-> <<>>]
NoMore == agg = [pc |-> "none"] /\ stats = [pc |-> "none"] /\ getblock = [pc |-> "none"]
NoHelpers == tcall = NoTraceCall /\ lookup = NoLookup /\ NoMore

\* RPCClient.__init__, and the environment the session runs against
InitRpc ==
    /\ NoHelpers
    /\ n_endpoints \in 1..MaxEndpoints
    /\ max_retries \in 1..MaxRetriesBound
    /\ always_fail \in SUBSET (0..(n_endpoints - 1))
    /\ flaky \in BOOLEAN
    /\ endpoint_idx = 0
    /\ next_id = 0
    /\ task = [t \in Tasks |-> IdleTask]
    /\ NoFetch
    /\ NoCache
    /\ NoScan

(* Several coroutines calling through one client concurrently. *)
NextRpc ==
    /\ \E t \in Tasks : StartCall(t) \/ PostFail(t) \/ PostOkCall(t) \/ Wake(t)
    /\ UNCHANGED <<fetchVars, cacheVars, scanVars, helperVars, moreVars>>

SpecRpc == InitRpc /\ [][NextRpc]_vars

(* One coroutine using call and batch against endpoints that may fail any  *)
(* POST, with every answer and every wire order of the batch responses.    *)
InitClient ==
    /\ NoHelpers
    /\ n_endpoints \in 1..MaxEndpoints
    /\ max_retries \in 1..2
    /\ always_fail = {}
    /\ flaky = TRUE
    /\ endpoint_idx = 0
    /\ next_id = 0
    /\ task = [t \in Tasks |-> IdleTask]
    /\ NoFetch
    /\ NoCache
    /\ NoScan

NextClient ==
    /\ StartCall(1) \/ StartBatch(1) \/ PostFail(1) \/ PostOkCall(1) \/ PostOkBatch(1) \/ Wake(1)
    /\ UNCHANGED <<fetchVars, cacheVars, scanVars, helperVars, moreVars>>

SpecClient == InitClient /\ [][NextClient]_vars

----------------------------------------------------------------------------
(* fetch_blocks *)

\* fetch_blocks: "window = 20"
Window == 20

\* the provider has the blocks below its head; it answers null for the others
Mined(n) == n < 125
BlockV(n) == [k |-> "block", v |-> n]
BlockAnswer(n) ==
    [has_error |-> FALSE, error |-> 0, has_result |-> TRUE,
     result |-> IF Mined(n) THEN BlockV(n) ELSE NoneV]
BlockError(n) == [has_error |-> TRUE, error |-> n, has_result |-> FALSE, result |-> NoneV]

\* "for i in range(0, len(block_numbers), window)": window w starts at this index
StartIdx(w) == (w - 1) * Window
Windows == {w \in 1..MaxWindows : StartIdx(w) < Len(block_numbers)}

\* fetch_window: block_numbers[start_idx:start_idx+window]
SliceNums_one_more(nums, start_idx) ==
    [i \in 1..Min({Window + 1, Len(nums) - start_idx}) |-> nums[start_idx + i]]
SliceNums(nums, start_idx) ==
    [i \in 1..Min({Window, Len(nums) - start_idx}) |-> nums[start_idx + i]]

\* fetch_window: "for i, r in enumerate(res): blocks[start_idx + i] = r"
WriteSlots_no_offset(buf, start_idx, res) ==
    [k \in 1..Len(buf) |-> IF k <= Len(res) THEN res[k] ELSE buf[k]]
WriteSlots(buf, start_idx, res) ==
    [k \in 1..Len(buf) |->
        IF k > start_idx /\ k <= start_idx + Len(res) THEN res[k - start_idx] ELSE buf[k]]

\* the slots of a list of n slots that the loop of fetch_window assigns for the
\* results res: those that differ from a fresh list afterwards
Unwritten == [k |-> "unwritten", v |-> 0]
Marked(buf) == {k \in 1..Len(buf) : buf[k] # Unwritten}
WrittenSlots(n, start_idx, res) ==
    Marked(WriteSlots([j \in 1..n |-> Unwritten], start_idx, res))

\* one more write for each of the slots in written
CountWrites(writes, written) ==
    [k \in 1..Len(writes) |-> IF k \in written THEN writes[k] + 1 ELSE writes[k]]

(* The bodies a provider can send back for one window: every block         *)
(* answered, the last one possibly by a per-item error, in request order   *)
(* or reversed; the array with one response missing; or one error object   *)
(* for the whole batch.                                                    *)
WindowAnswers(req) ==
    {[i \in 1..Len(req) |->
        AnswerItem(req[i].id, IF i = e THEN BlockError(req[i].p) ELSE BlockAnswer(req[i].p))] :
            e \in {0, Len(req)}}

WireOrders(n) ==
    { [i \in 1..n |-> i], [i \in 1..n |-> n + 1 - i] }

WindowWires(req) ==
    {ListWire(Permuted(items, f), TRUE) : items \in WindowAnswers(req), f \in WireOrders(Len(req))}
        \cup {ListWire(Tail(items), FALSE) : items \in WindowAnswers(req)}
        \cup {DictWire(ErrorObject)}

\* asyncio.Semaphore wakes its waiters in the order in which they started to wait,
\* which is the order in which gather started the windows
NextWaiting(w) == \A v \in Windows : v < w => task[v].pc # "idle"

\* "async with sem": a coroutine enters when the semaphore has a permit left
HasPermit_always(value) == TRUE
HasPermit(value) == value > 0

\* fetch_window: "async with sem", the slice, the calls and batch(calls) up to the POST
AcquireWindow(w) ==
    /\ fetch.pc \in {"gather", "raised"}
    /\ w \in Windows
    /\ task[w].pc = "idle"
    /\ NextWaiting(w)
    /\ HasPermit(sem)
    /\ sem' = sem - 1
    /\ LET ps == SliceNums(block_numbers, StartIdx(w))
       IN /\ next_id' = next_id + Len(ps)
          /\ BeginPost(w, "window", MakeReq(ps, next_id))
    /\ UNCHANGED <<n_endpoints, max_retries, always_fail, flaky, endpoint_idx>>
    /\ UNCHANGED <<block_numbers, concurrency, blocks, fetch>>

\* fetch_window: the POST of the window's batch fails and _post sleeps
WindowPostFail(w) ==
    /\ task[w].kind = "window"
    /\ PostFail(w)
    /\ UNCHANGED fetchVars

\* fetch_window: _post wakes up; it retries, or raises through batch and
\* "async with sem", which releases the permit
WindowWake(w) ==
    /\ task[w].kind = "window"
    /\ Wake(w)
    /\ IF HasNextAttempt(task[w].attempt, max_retries)
       THEN UNCHANGED <<sem, fetch>>
       ELSE sem' = sem + 1 /\ fetch' = [fetch EXCEPT !.done = Append(@, w)]
    /\ UNCHANGED <<block_numbers, concurrency, blocks>>

\* fetch_window: batch returns or raises; the slots are written and the permit released
WindowPostOk(w) ==
    /\ task[w].pc = "posting"
    /\ task[w].kind = "window"
    /\ task[w].url \notin always_fail
    /\ \E wire \in WindowWires(task[w].req) :
          LET tk == FinishBatch(task[w], wire)
          IN /\ task' = [task EXCEPT ![w] = tk]
             /\ blocks' = IF tk.pc = "returned"
                          THEN WriteSlots(blocks, StartIdx(w), tk.out)
                          ELSE blocks
             /\ fetch' = [fetch EXCEPT
                   !.done = Append(@, w),
                   !.writes = IF tk.pc = "returned"
                              THEN CountWrites(@, WrittenSlots(Len(blocks), StartIdx(w),
                                                               tk.out))
                              ELSE @]
    /\ sem' = sem + 1
    /\ UNCHANGED <<n_endpoints, max_retries, always_fail, flaky, endpoint_idx, next_id>>
    /\ UNCHANGED <<block_numbers, concurrency>>

\* "await asyncio.gather(*tasks)" when every window is done; "return blocks"
GatherReturn_any_done ==
    /\ fetch.pc = "gather"
    /\ \A w \in Windows : task[w].pc \in {"returned", "raised_rpc", "raised_transport"}
    /\ fetch' = [fetch EXCEPT !.pc = "returned", !.ret = blocks]
    /\ UNCHANGED <<rpcVars, block_numbers, concurrency, blocks, sem>>
GatherReturn ==
    /\ fetch.pc = "gather"
    /\ \A w \in Windows : task[w].pc = "returned"
    /\ fetch' = [fetch EXCEPT !.pc = "returned", !.ret = blocks]
    /\ UNCHANGED <<rpcVars, block_numbers, concurrency, blocks, sem>>

\* "await asyncio.gather(*tasks)" when a window has raised: gather raises the first
\* exception in fetch_blocks; the other windows are not cancelled by gather
GatherRaise ==
    /\ fetch.pc = "gather"
    /\ \E w \in Windows : task[w].pc \in {"raised_rpc", "raised_transport"}
    /\ fetch' = [fetch EXCEPT !.pc = "raised"]
    /\ UNCHANGED <<rpcVars, block_numbers, concurrency, blocks, sem>>

\* the block number lists fetch_blocks is called with: ascending ranges as built by
\* scan_range, and descending lists
BlockLists ==
    LET short == {0, 1, Window - 1, Window, Window + 1}
        long == {(MaxWindows - 1) * Window + 1}
    IN {[i \in 1..n |-> 99 + i] : n \in short \cup long}
          \cup {[i \in 1..n |-> 130 - i] : n \in short}

\* fetch_blocks up to "await asyncio.gather(*tasks)"
InitFetch ==
    /\ NoHelpers
    /\ n_endpoints \in 1..MaxEndpoints
    /\ max_retries \in 1..2
    /\ always_fail = {}
    /\ flaky = TRUE
    /\ endpoint_idx = 0
    /\ next_id = 0
    /\ task = [w \in 1..MaxWindows |-> IdleTask]
    /\ block_numbers \in BlockLists
    /\ concurrency \in 1..MaxConcurrency
    /\ blocks = [i \in 1..Len(block_numbers) |-> NoneV]
    /\ sem = concurrency
    /\ fetch = [pc |-> "gather", ret |-> <<>>, done |-> <<>>,
                writes |-> [i \in 1..Len(block_numbers) |-> 0]]
    /\ NoCache
    /\ NoScan

NextFetch ==
    /\ \/ \E w \in 1..MaxWindows :
             AcquireWindow(w) \/ WindowPostFail(w) \/ WindowWake(w) \/ WindowPostOk(w)
       \/ GatherReturn
       \/ GatherRaise
    /\ UNCHANGED <<cacheVars, scanVars, helperVars, moreVars>>

SpecFetch == InitFetch /\ [][NextFetch]_vars

(* fetch_blocks under the asyncio event loop, which runs a coroutine that  *)
(* is ready, against a provider that answers or fails every POST: as long  *)
(* as a step of fetch_blocks is possible, one is taken.                    *)
SpecFetchLive == InitFetch /\ [][NextFetch]_vars /\ WF_vars(NextFetch)

----------------------------------------------------------------------------
(* is_contract and its cache *)

\* what an eth_getCode lookup can produce in scan_eth_public_rpc.py: an exception,
\* empty code, or deployed code
CodeReplies == {"raise", "empty", "code"}

\* what the Etherscan proxy can produce in batch_eth_stats_ai.py: an exception that
\* outlasts the backoff decorator, no result key, "0x", null, deployed code
EsReplies == {"raise", "absent", "0x", "null", "code"}

\* is_contract (public RPC): the key under which the address is cached
CacheKey_raw(addr) == addr
CacheKey(addr) == Lower(ToChecksum(addr))

\* is_contract (Etherscan): "al = address.lower()"
EsCacheKey(addr) == Lower(addr)

\* is_contract: "if al.lower() in cache"
CacheHit_never(key, cache) == FALSE
CacheHit(key, cache) == key \in DOMAIN cache

\* is_contract (public RPC): "ok = bool(code and len(code) > 0)"
CodeOk(reply) == reply = "code"

\* is_contract (Etherscan): 'code = data.get("result", "0x")',
\* "ok = (code is not None) and (code != '0x')"
EsCodeOk(reply) == reply \notin {"absent", "0x", "null"}

\* the outcome of one is_contract call: what it returns or that it raises, the
\* number of eth_getCode lookups it issued, and the cache it leaves
CallOutcome(outcome, value, issued, cache) ==
    [outcome |-> outcome, value |-> value, issued |-> issued, cache |-> cache]

\* is_contract of scan_eth_public_rpc.py
IsContract_false_at_first_lookup(addr, reply, cache) ==
    IF addr = NoAddr THEN CallOutcome("returned", FALSE, 0, cache)
    ELSE IF CacheHit(CacheKey(addr), cache)
         THEN CallOutcome("returned", cache[CacheKey(addr)], 0, cache)
    ELSE IF reply = "raise" THEN CallOutcome("raised", FALSE, 1, cache)
    ELSE CallOutcome("returned", FALSE, 1,
                     DictSet(cache, CacheKey(addr), CodeOk(reply)))
IsContract(addr, reply, cache) ==
    IF addr = NoAddr THEN CallOutcome("returned", FALSE, 0, cache)
    ELSE IF CacheHit(CacheKey(addr), cache)
         THEN CallOutcome("returned", cache[CacheKey(addr)], 0, cache)
    ELSE IF reply = "raise" THEN CallOutcome("raised", FALSE, 1, cache)
    ELSE CallOutcome("returned", CodeOk(reply), 1,
                     DictSet(cache, CacheKey(addr), CodeOk(reply)))

\* is_contract of batch_eth_stats_ai.py
EsIsContract(addr, reply, cache) ==
    IF CacheHit(EsCacheKey(addr), cache)
    THEN CallOutcome("returned", cache[EsCacheKey(addr)], 0, cache)
    ELSE IF reply = "raise" THEN CallOutcome("raised", FALSE, 1, cache)
    ELSE CallOutcome("returned", EsCodeOk(reply), 1,
                     DictSet(cache, EsCacheKey(addr), EsCodeOk(reply)))

\* one is_contract call with outcome r, recorded
Classified(addr, r) ==
    LET a == Lower(addr)
        known == a \in DOMAIN cls.first
    IN /\ contract_cache' = r.cache
       /\ cls' = [cls EXCEPT
                    !.calls = @ + 1,
                    !.last = [addr |-> addr, known |-> known, outcome |-> r.outcome,
                              value |-> r.value, issued |-> r.issued],
                    !.first = IF r.outcome = "returned" /\ ~known /\ addr # NoAddr
                              THEN DictSet(@, a, r.value) ELSE @]

\* a caller of scan_eth_public_rpc.py classifies an address
IsContractCall ==
    /\ cls.impl = "public_rpc"
    /\ cls.calls < MaxClassify
    /\ \E addr \in RawAddrs \cup {NoAddr}, reply \in CodeReplies :
          Classified(addr, IsContract(addr, reply, contract_cache))
    /\ UNCHANGED <<rpcVars, fetchVars>>

\* a caller of batch_eth_stats_ai.py classifies an address
EsIsContractCall ==
    /\ cls.impl = "etherscan"
    /\ cls.calls < MaxClassify
    /\ \E addr \in RawAddrs, reply \in EsReplies :
          Classified(addr, EsIsContract(addr, reply, contract_cache))
    /\ UNCHANGED <<rpcVars, fetchVars>>

\* "contract_cache: Dict[str, bool] = {}" of either script
InitCache ==
    /\ NoHelpers
    /\ n_endpoints = 1
    /\ max_retries = 1
    /\ always_fail = {}
    /\ flaky = FALSE
    /\ endpoint_idx = 0
    /\ next_id = 0
    /\ task = [t \in Tasks |-> IdleTask]
    /\ NoFetch
    /\ contract_cache = <<>>
    /\ cls \in {[impl |-> i, calls |-> 0, last |-> NoCall, first |-> <<>>] :
                    i \in {"public_rpc", "etherscan"}}
    /\ NoScan

NextCache == (IsContractCall \/ EsIsContractCall) /\ UNCHANGED <<scanVars, helperVars, moreVars>>

SpecCache == InitCache /\ [][NextCache]_vars

----------------------------------------------------------------------------
(* Traces: try_trace_block and count_internal_receives of                  *)
(* scan_eth_public_rpc.py                                                  *)

(* A JSON value field: a string (its characters), a native integer, null,  *)
(* or no such key.                                                         *)
StrV(s) == [t |-> "str", s |-> s, n |-> 0]
IntV(n) == [t |-> "int", s |-> <<>>, n |-> n]
NullV == [t |-> "null", s |-> <<>>, n |-> 0]
AbsentVal == [t |-> "absent", s |-> <<>>, n |-> 0]

\* the digits of Python's int(): the first ten for base 10, all of them for base 16
HexChars == <<"0", "1", "2", "3", "4", "5", "6", "7", "8", "9",
              "a", "b", "c", "d", "e", "f">>
DigitOf(c) == CHOOSE d \in 0..(Len(HexChars) - 1) : HexChars[d + 1] = c

(* How a node writes the amount n in a trace: "0x" and the hexadecimal     *)
(* digits, the decimal digits, or a JSON number.                           *)
RECURSIVE Digits(_, _)
Digits(n, base) ==
    IF n < base THEN <<HexChars[n + 1]>>
    ELSE Digits(n \div base, base) \o <<HexChars[(n % base) + 1]>>
HexStr(n) == <<"0", "x">> \o Digits(n, 16)
DecStr(n) == Digits(n, 10)
Encodings == {"hex", "dec", "int"}

\* the value field of a trace entry: the amount n in one of the three encodings, the
\* empty string, null, no key at all, or a string that is no number
Val(enc, n) ==
    CASE enc = "hex" -> StrV(HexStr(n))
      [] enc = "dec" -> StrV(DecStr(n))
      [] enc = "int" -> IntV(n)
      [] enc = "empty" -> StrV(<<>>)
      [] enc = "null" -> NullV
      [] enc = "absent" -> AbsentVal
      [] OTHER -> StrV(<<"0", "x", "z">>)

\* a number or the exception raised while converting
Num(n) == [ok |-> TRUE, n |-> n]
Unparsable == [ok |-> FALSE, n |-> 0]

\* int(s, base) on a string without prefix: ValueError when the string is empty or
\* has a character that is no digit of the base
RECURSIVE ParseDigits(_, _, _)
ParseDigits(s, base, acc) ==
    IF s = <<>> THEN acc
    ELSE ParseDigits(Tail(s), base, acc * base + DigitOf(Head(s)))
ParseInt(s, base) ==
    IF s # <<>> /\ \A i \in 1..Len(s) : s[i] \in Range(SubSeq(HexChars, 1, base))
    THEN Num(ParseDigits(s, base, 0))
    ELSE Unparsable

\* v.startswith("0x")
StartsWith0x_never(s) == FALSE
StartsWith0x(s) == Len(s) >= 2 /\ s[1] = "0" /\ s[2] = "x"

\* int(v, 16) on a string that starts with "0x": base 16 accepts the prefix
ParseHex(s) == ParseInt(SubSeq(s, 3, Len(s)), 16)

\* count_internal_receives, trace_block branch: 'val = action.get("value", 0)', the
\* conversion of a string ('int(val, 16)' after "0x", else 'int(val or 0)'), and the
\* comparison "val > 0", which raises for None
NormFlat(v) ==
    CASE v.t = "absent" -> Num(0)
      [] v.t = "int" -> Num(v.n)
      [] v.t = "str" -> IF StartsWith0x(v.s) THEN ParseHex(v.s)
                        ELSE IF v.s = <<>> THEN Num(0) ELSE ParseInt(v.s, 10)
      [] OTHER -> Unparsable

\* count_internal_receives, debug_trace branch: 'v = node.get("value", "0x0")',
\* int(v, 16) for a "0x" string, int(v or 0) otherwise
NormTree(v) ==
    CASE v.t = "absent" -> ParseHex(<<"0", "x", "0">>)
      [] v.t = "int" -> Num(v.n)
      [] v.t = "str" -> IF StartsWith0x(v.s) THEN ParseHex(v.s)
                        ELSE IF v.s = <<>> THEN Num(0) ELSE ParseInt(v.s, 10)
      [] OTHER -> Num(0)

(* One entry of a trace_block list: a dict with "type" and "action", or    *)
(* something that is no dict.                                              *)
FlatEntry(typ, to, value) == [dict |-> TRUE, type |-> typ, to |-> to, value |-> value]
NotADict == [dict |-> FALSE, type |-> "", to |-> NoAddr, value |-> AbsentVal]

\* count_internal_receives: 'if typ not in ("call", "create", "suicide"): continue'
CountedTypes_no_create == {"call", "suicide"}
CountedTypes == {"call", "create", "suicide"}

\* count_internal_receives, trace_block branch: the body of the loop for one entry
FlatMatches(t, target) ==
    /\ t.dict
    /\ t.type \in CountedTypes
    /\ NormFlat(t.value).ok
    /\ Lower(t.to) = target
    /\ NormFlat(t.value).n > 0

\* count_internal_receives, trace_block branch
RECURSIVE CountFlatLoop(_, _, _)
CountFlatLoop(payload, target, cnt) ==
    IF payload = <<>> THEN cnt
    ELSE CountFlatLoop(Tail(payload), target,
                       IF FlatMatches(Head(payload), target) THEN cnt + 1 ELSE cnt)
CountFlat(payload, target) == CountFlatLoop(payload, target, 0)

(* One node of a callTracer tree: "to", "value" and "calls"; calls_ok is   *)
(* FALSE when "calls" is present and not a list.                           *)
TreeNode(to, value, calls) ==
    [dict |-> TRUE, to |-> to, value |-> value, calls_ok |-> TRUE, calls |-> calls]

\* where a node is expected, something that is no dict
NotANode ==
    [dict |-> FALSE, to |-> NoAddr, value |-> AbsentVal, calls_ok |-> TRUE, calls |-> <<>>]

RECURSIVE SumSeq(_)
SumSeq(ns) == IF ns = <<>> THEN 0 ELSE Head(ns) + SumSeq(Tail(ns))

\* dfs: 'for c in node.get("calls", []) or []'; iterating something that is no list
\* raises after the node itself was counted, and dfs returns
Children_none(node) == <<>>
Children(node) == IF node.calls_ok THEN node.calls ELSE <<>>

\* count_internal_receives, debug_trace branch: dfs(node).  An exception leaves the
\* node at once: its children are then not visited.
RECURSIVE Dfs(_, _)
Dfs(node, target) ==
    IF ~node.dict \/ ~NormTree(node.value).ok THEN 0
    ELSE (IF Lower(node.to) = target /\ NormTree(node.value).n > 0 THEN 1 ELSE 0)
         + SumSeq([i \in 1..Len(Children(node)) |-> Dfs(Children(node)[i], target)])

(* One entry of a debug_trace payload: a tree, bare or under "result", or  *)
(* something that is no dict.                                              *)
TreeEntry(wrapped, node) == [dict |-> TRUE, wrapped |-> wrapped, node |-> node]
NotAnEntry == [dict |-> FALSE, wrapped |-> FALSE, node |-> NotANode]

\* count_internal_receives, debug_trace branch: 'root = v.get("result") or v': the
\* tree under "result", or the entry itself when it is a bare tree
RootOf(entry) == entry.node

\* count_internal_receives, debug_trace branch: the loop over the entries; v.get of
\* an entry that is no dict raises out of count_internal_receives
CountTrees(payload, target) ==
    IF \E i \in 1..Len(payload) : ~payload[i].dict
    THEN [raised |-> TRUE, cnt |-> 0]
    ELSE [raised |-> FALSE,
          cnt |-> SumSeq([i \in 1..Len(payload) |->
                            IF RootOf(payload[i]).dict THEN Dfs(RootOf(payload[i]), target)
                            ELSE 0])]

\* scan_range: "if method and payload"
Truthy(tr) == tr.method # "none" /\ ~tr.null /\ (tr.flat # <<>> \/ tr.trees # <<>>)

\* count_internal_receives(trace_method, trace_payload, target_addr)
CountInternalReceives(tr, target_addr) ==
    IF tr.method = "trace_block"
    THEN [raised |-> FALSE, cnt |-> CountFlat(tr.flat, Lower(target_addr))]
    ELSE IF tr.method = "debug_trace" THEN CountTrees(tr.trees, Lower(target_addr))
    ELSE [raised |-> FALSE, cnt |-> 0]

(* The response to one trace request: the request raises ("raise"), the    *)
(* response has no result key ("error"), a null result ("null"), or a      *)
(* result with a payload ("payload").                                      *)
TraceReply(kind, flat, trees) == [kind |-> kind, flat |-> flat, trees |-> trees]

\* try_trace_block: trace_block first, accepted when its result is a list; then
\* debug_traceBlockByNumber, accepted when the response has a result key; else
\* (None, None).  requests lists the methods requested, in order.
TryTraceBlock(reply_a, reply_b) ==
    IF reply_a.kind = "payload"
    THEN [trace |-> Trace("trace_block", FALSE, reply_a.flat, <<>>),
          requests |-> <<"trace_block">>]
    ELSE IF reply_b.kind \in {"payload", "null"}
         THEN [trace |-> Trace("debug_trace", reply_b.kind = "null", <<>>, reply_b.trees),
               requests |-> <<"trace_block", "debug_traceBlockByNumber">>]
         ELSE [trace |-> Unsupported,
               requests |-> <<"trace_block", "debug_traceBlockByNumber">>]

\* try_trace_one_block of scan_eth_highperf_api.py: trace_block first, accepted
\* whenever client.call returns (a null result included); then
\* debug_traceBlockByNumber in the same way; else (None, None).  client.call raises
\* for a transport failure and for an error response.
TryTraceOneBlock_no_fallback(reply_a, reply_b) ==
    IF reply_a.kind \in {"payload", "null"}
    THEN [trace |-> Trace("trace_block", reply_a.kind = "null", reply_a.flat, <<>>),
          requests |-> <<"trace_block">>]
    ELSE [trace |-> Unsupported, requests |-> <<"trace_block">>]
TryTraceOneBlock(reply_a, reply_b) ==
    IF reply_a.kind \in {"payload", "null"}
    THEN [trace |-> Trace("trace_block", reply_a.kind = "null", reply_a.flat, <<>>),
          requests |-> <<"trace_block">>]
    ELSE IF reply_b.kind \in {"payload", "null"}
         THEN [trace |-> Trace("debug_trace", reply_b.kind = "null", <<>>, reply_b.trees),
               requests |-> <<"trace_block", "debug_traceBlockByNumber">>]
         ELSE [trace |-> Unsupported,
               requests |-> <<"trace_block", "debug_traceBlockByNumber">>]

----------------------------------------------------------------------------
(* The trace helpers on their own: one call of try_trace_block (or         *)
(* try_trace_one_block) against a node that answers each method in any     *)
(* way, then one call of count_internal_receives on what it returned.      *)

SeqsUpTo(S, k) == UNION {[1..n -> S] : n \in 0..k}

\* the amounts the traces carry
Amounts == {0, 5, MaxAmount}

\* the recipients as the node spells them, and the targets as the caller does
TraceAddrs == {<<"b", "A">>, <<"a", "b">>}
Targets == {<<"B", "a">>, <<"a", "b">>}

\* the entries of a trace_block list: every type with one transfer, every recipient
\* with every amount in every encoding, and entries that are no dict or whose value
\* is null, empty, missing or no number
FlatEntries ==
    {FlatEntry(typ, <<"b", "A">>, Val("hex", 5)) :
        typ \in {"call", "create", "suicide", "reward"}}
    \cup {FlatEntry("call", to, Val(enc, n)) :
            to \in TraceAddrs, enc \in Encodings, n \in Amounts}
    \cup {FlatEntry("call", <<"b", "A">>, Val(enc, 0)) :
            enc \in {"null", "empty", "absent", "junk"}}
    \cup {NotADict}

\* a node whose "calls" is not a list
BadCalls(node) == [node EXCEPT !.calls_ok = FALSE]

\* the call trees of a callTracer payload, up to depth d
Leaves ==
    {TreeNode(<<"b", "A">>, Val(enc, n), <<>>) : enc \in Encodings, n \in Amounts}
    \cup {TreeNode(<<"a", "b">>, Val("hex", 5), <<>>),
          TreeNode(<<"b", "A">>, Val("absent", 0), <<>>),
          TreeNode(<<"b", "A">>, Val("junk", 0), <<>>),
          BadCalls(TreeNode(<<"b", "A">>, Val("hex", 5), <<>>)),
          NotANode}
Parents ==
    {TreeNode(<<"b", "A">>, Val("hex", 5), <<>>),
     TreeNode(<<"a", "b">>, Val("dec", MaxAmount), <<>>),
     TreeNode(<<"b", "A">>, Val("junk", 0), <<>>)}
RECURSIVE TreesOfDepth(_)
TreesOfDepth(d) ==
    IF d <= 1 THEN Leaves
    ELSE LET T == TreesOfDepth(d - 1)
         IN T \cup {[p EXCEPT !.calls = <<c>>] : p \in Parents, c \in T}
              \cup {TreeNode(<<"b", "A">>, Val("int", 5), <<NotANode, c>>) :
                      c \in {x \in T : x.dict /\ x.calls = <<>>}}

\* the entries of a debug_trace payload: each tree bare or under "result", a
\* "result" that is no dict, and an entry that is no dict
TreeEntries ==
    {TreeEntry(w, t) : w \in BOOLEAN, t \in TreesOfDepth(MaxDepth) \ {NotANode}}
    \cup {TreeEntry(TRUE, NotANode), NotAnEntry}
TreePayloads ==
    SeqsUpTo(TreeEntries, 1)
    \cup {<<e, u>> : e \in TreeEntries,
                     u \in {NotAnEntry,
                            TreeEntry(TRUE, TreeNode(<<"b", "A">>, Val("dec", 5), <<>>))}}

\* what the node can answer to trace_block and to debug_traceBlockByNumber
FailedReplies == {TraceReply(k, <<>>, <<>>) : k \in {"raise", "error", "null"}}
AllFlatReplies ==
    FailedReplies \cup {TraceReply("payload", f, <<>>) : f \in SeqsUpTo(FlatEntries, MaxEntries)}
AllTreeReplies ==
    FailedReplies \cup {TraceReply("payload", <<>>, t) : t \in TreePayloads}

\* try_trace_block(w3, block_number) or try_trace_one_block(client, bn).  When the
\* node answers trace_block with a list, only the kind of its answer to the other
\* method is drawn.
TryTraceCall ==
    /\ tcall.pc = "start"
    /\ \E reply_a \in AllFlatReplies :
          \E reply_b \in (IF reply_a.kind = "payload"
                          THEN FailedReplies \cup {TraceReply("payload", <<>>, <<>>)}
                          ELSE AllTreeReplies) :
             LET r == IF tcall.impl = "public_rpc" THEN TryTraceBlock(reply_a, reply_b)
                      ELSE TryTraceOneBlock(reply_a, reply_b)
             IN tcall' = [tcall EXCEPT !.pc = "returned", !.requests = r.requests,
                                       !.replies = <<reply_a.kind, reply_b.kind>>,
                                       !.trace = r.trace]
    /\ UNCHANGED <<rpcVars, fetchVars, cacheVars, scanVars, lookup, moreVars>>

\* count_internal_receives(method, payload, target) on the trace that was returned
CountCall ==
    /\ tcall.pc = "returned"
    /\ tcall.trace.method # "none"
    /\ \E target \in Targets :
          tcall' = [tcall EXCEPT !.pc = "counted", !.target = target,
                                 !.result = CountInternalReceives(tcall.trace, target)]
    /\ UNCHANGED <<rpcVars, fetchVars, cacheVars, scanVars, lookup, moreVars>>

InitTrace ==
    /\ n_endpoints = 1
    /\ max_retries = 1
    /\ always_fail = {}
    /\ flaky = FALSE
    /\ endpoint_idx = 0
    /\ next_id = 0
    /\ task = [t \in Tasks |-> IdleTask]
    /\ NoFetch
    /\ NoCache
    /\ NoScan
    /\ lookup = NoLookup
    /\ NoMore
    /\ \E impl \in {"public_rpc", "highperf"} :
          tcall = [NoTraceCall EXCEPT !.pc = "start", !.impl = impl]

NextTrace == TryTraceCall \/ CountCall

SpecTrace == InitTrace /\ [][NextTrace]_vars

----------------------------------------------------------------------------
(* scan_range of scan_eth_public_rpc.py *)

\* d.get(k, 0)
Get(d, k) == IF k \in DOMAIN d THEN d[k] ELSE 0

\* scan_range.add: d[k] = d.get(k, 0) + inc
Add(d, k, inc) == DictSet(d, k, Get(d, k) + inc)

\* the senders and recipients of the transactions of the modelled blocks, as the
\* node spells them; NoAddr is the missing recipient of a contract creation and a
\* missing sender
TxFroms == {<<"A", "B">>, NoAddr}
TxTos == {<<"b", "A">>, <<"A", "b">>, NoAddr}

\* get_tx_status: the receipt says success, says failure, or cannot be fetched
Statuses == {"success", "failed", "raise"}

\* get_tx_status: "return 1 if r.status == 1 else 0", 0 on an exception
GetTxStatus(status) == IF status = "success" THEN 1 ELSE 0

\* scan_range: "if check_success and not tx_success(h_hex): continue"
Skipped(check_success, status) == check_success /\ GetTxStatus(status) # 1

\* the set with the address, unless the address is empty
Truthful(addr) == IF addr = NoAddr THEN {} ELSE {Lower(addr)}

\* every transaction of the chain has a sender; the model lets the first one of a
\* scan come without, for the guard "if frm"
SendersAt(sc) == IF sc.bn = 1 /\ sc.ntx = 0 THEN TxFroms ELSE TxFroms \ {NoAddr}

\* scan_range: "if to and is_contract(w3, to, contract_cache):
\* add(sent_to_contract_txs, frm, 1)", nothing when is_contract raises
CountToContract_twice(d, frm, tol, r) ==
    IF tol # NoAddr /\ r.outcome = "returned" /\ r.value THEN Add(d, frm, 2) ELSE d
CountToContract_recipient(d, frm, tol, r) ==
    IF tol # NoAddr /\ r.outcome = "returned" /\ r.value THEN Add(d, tol, 1) ELSE d
CountToContract(d, frm, tol, r) ==
    IF tol # NoAddr /\ r.outcome = "returned" /\ r.value THEN Add(d, frm, 1) ELSE d

\* scan_range, the body of "for tx in txs" for one transaction (lines 268-295);
\* reply is what eth_getCode would answer for the recipient
ScanTx ==
    /\ scan.pc = "txs"
    /\ scan.ntx < MaxTxs
    /\ \E from \in SendersAt(scan), to \in TxTos,
          status \in (IF scan.check_success THEN Statuses ELSE {"success"}) :
       \E reply \in (IF to = NoAddr \/ Skipped(scan.check_success, status)
                         \/ CacheHit(CacheKey(Lower(to)), contract_cache)
                     THEN {"empty"} ELSE CodeReplies) :
          LET frm == Lower(from)
              tol == Lower(to)
              skip == Skipped(scan.check_success, status)
              r == IsContract(tol, reply, contract_cache)
          IN /\ addrs_in_block' = addrs_in_block \cup Truthful(from) \cup Truthful(to)
             /\ scan' = [scan EXCEPT !.ntx = @ + 1, !.tx = IF skip THEN NoTx ELSE Tx(from, to, TRUE),
                                     !.trace = Unsupported]
             /\ IF skip
                THEN UNCHANGED <<seen_addrs, sent_txs, received_txs, sent_to_contract_txs,
                                 contract_cache, observed>>
                ELSE /\ seen_addrs' = seen_addrs \cup Truthful(from) \cup Truthful(to)
                     /\ observed' = observed \cup Truthful(from) \cup Truthful(to)
                     /\ sent_txs' = IF frm # NoAddr THEN Add(sent_txs, frm, 1) ELSE sent_txs
                     /\ received_txs' =
                           IF tol # NoAddr THEN Add(received_txs, tol, 1) ELSE received_txs
                     /\ contract_cache' = IF tol # NoAddr THEN r.cache ELSE contract_cache
                     /\ sent_to_contract_txs' =
                           CountToContract(sent_to_contract_txs, frm, tol, r)
    /\ UNCHANGED <<rpcVars, fetchVars, cls, internal_recv_from_contract_txs, rows>>

\* scan_range: the loop "for bn in range(start_block, end_block + 1)" moves on
NextBlockOf(sc) ==
    IF sc.bn < sc.end_block
    THEN [sc EXCEPT !.bn = @ + 1, !.ntx = 0, !.pc = "txs", !.tx = NoTx]
    ELSE [sc EXCEPT !.pc = "balances", !.tx = NoTx]

\* scan_range: the block has no more transactions and tracing is off
EndBlock ==
    /\ scan.pc = "txs"
    /\ ~scan.trace_enabled
    /\ scan' = NextBlockOf(scan)
    /\ addrs_in_block' = {}
    /\ UNCHANGED <<rpcVars, fetchVars, cacheVars, sent_txs, received_txs,
                   sent_to_contract_txs, internal_recv_from_contract_txs, seen_addrs,
                   rows, observed>>

\* the trace_block and debug_traceBlockByNumber responses of the modelled node
FlatReplies ==
    { TraceReply("raise", <<>>, <<>>),
      TraceReply("payload", <<>>, <<>>),
      TraceReply("payload",
                 << FlatEntry("call", <<"b", "A">>, Val("hex", 5)),
                    FlatEntry("reward", <<"a", "b">>, Val("hex", 7)),
                    FlatEntry("call", <<"a", "b">>, Val("int", 0)) >>, <<>>) }
TreeReplies ==
    { TraceReply("error", <<>>, <<>>),
      TraceReply("null", <<>>, <<>>),
      TraceReply("payload", <<>>,
                 << TreeEntry(TRUE,
                       TreeNode(<<"c", "c">>, Val("hex", 0),
                                << TreeNode(<<"A", "b">>, Val("dec", 10), <<>>),
                                   TreeNode(<<"a", "b">>, Val("int", 3), <<>>) >>)) >>) }

\* scan_range, "for addr in addrs_in_block" (lines 308-316): the counts added to
\* internal_recv_from_contract_txs
AddInternal_once(d, tr, addrs) ==
    [a \in (DOMAIN d) \cup {x \in addrs : CountInternalReceives(tr, x).cnt > 0
                                          /\ ~CountInternalReceives(tr, x).raised} |->
        Get(d, a) + (IF a \in addrs /\ ~CountInternalReceives(tr, a).raised
                        /\ CountInternalReceives(tr, a).cnt > 0
                     THEN 1 ELSE 0)]
AddInternal(d, tr, addrs) ==
    [a \in (DOMAIN d) \cup {x \in addrs : CountInternalReceives(tr, x).cnt > 0
                                          /\ ~CountInternalReceives(tr, x).raised} |->
        Get(d, a) + (IF a \in addrs /\ ~CountInternalReceives(tr, a).raised
                     THEN CountInternalReceives(tr, a).cnt ELSE 0)]

\* scan_range after try_trace_block has returned tr for block bn: whatever tr is,
\* the loop "for bn in range(...)" goes on ("if unsupported, payload is None and we
\* gracefully skip"); the trace that was returned is kept in scan.trace
AfterTrace_abort(sc, tr) ==
    IF tr.method = "none"
    THEN [sc EXCEPT !.pc = "raised", !.tx = NoTx, !.trace = tr]
    ELSE [NextBlockOf(sc) EXCEPT !.trace = tr]
AfterTrace(sc, tr) == [NextBlockOf(sc) EXCEPT !.trace = tr]

\* scan_range, "if trace_enabled" (lines 298-317) at the end of a block
TraceBlockStep ==
    /\ scan.pc = "txs"
    /\ scan.trace_enabled
    /\ \E reply_a \in FlatReplies, reply_b \in TreeReplies :
          LET tr == TryTraceBlock(reply_a, reply_b).trace
          IN /\ IF Truthy(tr)
                THEN /\ internal_recv_from_contract_txs' =
                           AddInternal(internal_recv_from_contract_txs, tr, addrs_in_block)
                     /\ seen_addrs' = seen_addrs \cup
                           {a \in addrs_in_block : CountInternalReceives(tr, a).cnt > 0
                                                   /\ ~CountInternalReceives(tr, a).raised}
                ELSE UNCHANGED <<internal_recv_from_contract_txs, seen_addrs>>
             /\ scan' = AfterTrace(scan, tr)
    /\ addrs_in_block' = {}
    /\ UNCHANGED <<rpcVars, fetchVars, cacheVars, sent_txs, received_txs,
                   sent_to_contract_txs, rows, observed>>

\* scan_range: get_block_with_retries raises and scan_range raises with it
BlockFetchFails ==
    /\ scan.pc = "txs"
    /\ scan.ntx = 0
    /\ scan' = [scan EXCEPT !.pc = "raised"]
    /\ UNCHANGED <<rpcVars, fetchVars, cacheVars, sent_txs, received_txs,
                   sent_to_contract_txs, internal_recv_from_contract_txs, seen_addrs,
                   addrs_in_block, rows, observed>>

\* scan_range: "addr_list = sorted(seen_addrs)"
Sorted(S) == SelectSeq(SortedAddrs, LAMBDA a : a \in S)

\* scan_range: "if balance_limit > 0: addr_list = addr_list[:balance_limit]"
Limited(addr_list, balance_limit) ==
    IF balance_limit > 0
    THEN SubSeq(addr_list, 1, Min({balance_limit, Len(addr_list)}))
    ELSE addr_list

\* get_balances: what one eth_getBalance lookup produces
BalanceReplies == {[ok |-> FALSE, wei |-> 0], [ok |-> TRUE, wei |-> 5]}

\* get_balances: "out[a] = wei / 1e18", None after an exception; the record stands
\* for wei * 10^-18 ETH
NoBalance == [k |-> "none", wei |-> 0]
GetBalance(reply) == IF reply.ok THEN [k |-> "eth", wei |-> reply.wei] ELSE NoBalance

\* scan_range, "rows.append({...})" for one address (lines 328-343)
BuildRow_contract_in_external(a, balance, ext_sent, ext_recv, ext_to_contract, internal_recv) ==
    [address |-> a,
     eth_balance |-> balance,
     total_txs |-> ext_sent + ext_recv + ext_to_contract + internal_recv,
     sent_txs |-> ext_sent,
     received_txs |-> ext_recv,
     sent_to_contract_txs |-> ext_to_contract,
     received_from_contract_txs |-> internal_recv,
     external_txs |-> ext_sent + ext_recv + ext_to_contract,
     internal_txs |-> internal_recv]
BuildRow(a, balance, ext_sent, ext_recv, ext_to_contract, internal_recv) ==
    [address |-> a,
     eth_balance |-> balance,
     total_txs |-> ext_sent + ext_recv + internal_recv,
     sent_txs |-> ext_sent,
     received_txs |-> ext_recv,
     sent_to_contract_txs |-> ext_to_contract,
     received_from_contract_txs |-> internal_recv,
     external_txs |-> ext_sent + ext_recv,
     internal_txs |-> internal_recv]

\* scan_range, steps 3 and 4 (lines 319-344): the balances and the rows.  The
\* arguments with_balances and balance_limit are read here for the first time.
Emit ==
    /\ scan.pc = "balances"
    /\ \E with_balances \in BOOLEAN, balance_limit \in 0..MaxBalanceLimit :
          LET addr_list == Limited(Sorted(seen_addrs), balance_limit)
          IN /\ scan' = [scan EXCEPT !.pc = "done", !.with_balances = with_balances,
                                     !.balance_limit = balance_limit]
             /\ \E replies \in (IF with_balances THEN [Range(addr_list) -> BalanceReplies]
                               ELSE {[a \in Range(addr_list) |-> [ok |-> FALSE, wei |-> 0]]}) :
                   rows' = [i \in 1..Len(addr_list) |->
                              LET a == addr_list[i]
                              IN BuildRow(a,
                                          IF with_balances THEN GetBalance(replies[a])
                                          ELSE NoBalance,
                                          Get(sent_txs, a), Get(received_txs, a),
                                          Get(sent_to_contract_txs, a),
                                          Get(internal_recv_from_contract_txs, a))]
    /\ UNCHANGED <<rpcVars, fetchVars, cacheVars, sent_txs, received_txs,
                   sent_to_contract_txs, internal_recv_from_contract_txs, seen_addrs,
                   addrs_in_block, observed>>

\* scan_range(w3, start_block, end_block, check_success, with_balances,
\* balance_limit, trace_enabled) up to its first block, for ranges of 0 to MaxBlocks
\* blocks
InitScan ==
    /\ NoHelpers
    /\ n_endpoints = 1
    /\ max_retries = 1
    /\ always_fail = {}
    /\ flaky = FALSE
    /\ endpoint_idx = 0
    /\ next_id = 0
    /\ task = [t \in Tasks |-> IdleTask]
    /\ NoFetch
    /\ NoCache
    /\ \E cs \in BOOLEAN, te \in BOOLEAN, nb \in 0..MaxBlocks :
          scan = [pc |-> IF nb = 0 THEN "balances" ELSE "txs",
                  check_success |-> cs, with_balances |-> FALSE, balance_limit |-> 0,
                  trace_enabled |-> te, bn |-> 1, end_block |-> nb, ntx |-> 0,
                  tx |-> NoTx, trace |-> Unsupported]
    /\ sent_txs = <<>>
    /\ received_txs = <<>>
    /\ sent_to_contract_txs = <<>>
    /\ internal_recv_from_contract_txs = <<>>
    /\ seen_addrs = {}
    /\ addrs_in_block = {}
    /\ rows = <<>>
    /\ observed = {}

NextScan ==
    /\ ScanTx \/ EndBlock \/ TraceBlockStep \/ BlockFetchFails \/ Emit
    /\ UNCHANGED <<helperVars, moreVars>>

SpecScan == InitScan /\ [][NextScan]_vars

----------------------------------------------------------------------------
(* The aggregation of scan_range over given blocks.  The body of the loop  *)
(* "for bn in range(start_block, end_block + 1)" is applied to the blocks  *)
(* of a chain, one block at a time, in any order of the blocks; the node   *)
(* answers eth_getCode for an address in the same way every time.          *)

\* the dicts and the set scan_range accumulates, and the contract cache
Acc(sent, recv, toc, internal, seen, cache) ==
    [sent |-> sent, recv |-> recv, toc |-> toc, internal |-> internal, seen |-> seen,
     cache |-> cache]
EmptyAcc == Acc(<<>>, <<>>, <<>>, <<>>, {}, <<>>)

\* a transaction of a block with the status of its receipt, and a block with what
\* try_trace_block returns for it
BlockTx(from, to, status) == [from |-> from, to |-> to, status |-> status]
BlockOf(txs, trace) == [txs |-> txs, trace |-> trace]

\* scan_range, the body of "for tx in txs" (lines 268-295) for the transaction tx;
\* code[a] is what eth_getCode answers for address a
CountTx(acc, tx, check_success, code) ==
    LET frm == Lower(tx.from)
        tol == Lower(tx.to)
        r == IsContract(tol, IF tol = NoAddr THEN "empty" ELSE code[tol], acc.cache)
    IN IF Skipped(check_success, tx.status) THEN acc
       ELSE Acc(IF frm # NoAddr THEN Add(acc.sent, frm, 1) ELSE acc.sent,
                IF tol # NoAddr THEN Add(acc.recv, tol, 1) ELSE acc.recv,
                CountToContract(acc.toc, frm, tol, r),
                acc.internal,
                acc.seen \cup Truthful(tx.from) \cup Truthful(tx.to),
                IF tol # NoAddr THEN r.cache ELSE acc.cache)

\* scan_range: "for tx in txs"
RECURSIVE CountTxs(_, _, _, _)
CountTxs(acc, txs, check_success, code) ==
    IF txs = <<>> THEN acc
    ELSE CountTxs(CountTx(acc, Head(txs), check_success, code), Tail(txs),
                  check_success, code)

\* scan_range, lines 300-307: the senders and recipients of every transaction of
\* the block
AddrsInBlock(txs) ==
    UNION {Truthful(txs[i].from) \cup Truthful(txs[i].to) : i \in 1..Len(txs)}

\* scan_range, the body of "for bn in range(...)" (lines 264-317) for one block
CountBlock(acc, block, check_success, trace_enabled, code) ==
    LET a == CountTxs(acc, block.txs, check_success, code)
        addrs == AddrsInBlock(block.txs)
        tr == block.trace
    IN IF trace_enabled /\ Truthy(tr)
       THEN [a EXCEPT !.internal = AddInternal(@, tr, addrs),
                      !.seen = @ \cup {x \in addrs : CountInternalReceives(tr, x).cnt > 0
                                                     /\ ~CountInternalReceives(tr, x).raised}]
       ELSE a

\* scan_range over the blocks bs in the order given by the sequence of indexes
RECURSIVE CountBlocks(_, _, _, _, _, _)
CountBlocks(acc, bs, order, check_success, trace_enabled, code) ==
    IF order = <<>> THEN acc
    ELSE CountBlocks(CountBlock(acc, bs[Head(order)], check_success, trace_enabled, code),
                     bs, Tail(order), check_success, trace_enabled, code)

\* the blocks of the modelled chain: transfers to an address that may hold code,
\* by two senders and by a transaction without sender; a contract creation; a
\* transaction whose receipt reports failure and one whose receipt cannot be read;
\* an empty block; blocks without trace, with a flat trace and with a call tree
ChainBlocks ==
    << BlockOf(<< BlockTx(<<"A", "B">>, <<"b", "A">>, "success") >>, Unsupported),
       BlockOf(<< BlockTx(<<"c", "C">>, <<"B", "a">>, "success") >>,
               Trace("trace_block", FALSE,
                     << FlatEntry("call", <<"a", "b">>, Val("hex", 5)),
                        FlatEntry("call", <<"b", "A">>, Val("dec", 7)) >>, <<>>)),
       BlockOf(<< BlockTx(<<"A", "B">>, NoAddr, "success"),
                  BlockTx(NoAddr, <<"A", "b">>, "success") >>,
               Trace("debug_trace", FALSE, <<>>,
                     << TreeEntry(TRUE,
                           TreeNode(<<"c", "c">>, Val("hex", 0),
                                    << TreeNode(<<"A", "b">>, Val("dec", 10), <<>>),
                                       TreeNode(<<"a", "b">>, Val("int", 3), <<>>) >>)) >>)),
       BlockOf(<< BlockTx(<<"c", "c">>, <<"b", "a">>, "failed"),
                  BlockTx(<<"a", "b">>, <<"b", "a">>, "raise") >>,
               Trace("trace_block", FALSE,
                     << FlatEntry("call", <<"c", "c">>, Val("int", 1)) >>, <<>>)),
       BlockOf(<<>>, Trace("trace_block", FALSE,
                           << FlatEntry("call", <<"b", "a">>, Val("hex", 5)) >>, <<>>)) >>

\* the block lists that are scanned: up to MaxAggBlocks blocks of the chain, in
\* the order of their numbers
AscendingLists ==
    {sel \in SeqsUpTo(1..Len(ChainBlocks), MaxAggBlocks) :
        \A i \in 1..(Len(sel) - 1) : sel[i] < sel[i + 1]}

\* what eth_getCode answers for the recipients
CodeMaps == [LowerAddrs -> CodeReplies]

\* the accumulated state of the scan as one record
AccNow ==
    Acc(sent_txs, received_txs, sent_to_contract_txs, internal_recv_from_contract_txs,
        seen_addrs, contract_cache)

\* scan_range, one iteration of "for bn in range(...)", for any block that has
\* not been processed yet
ProcessBlock ==
    /\ scan.pc = "blocks"
    /\ \E b \in agg.todo :
          LET a == CountBlock(AccNow, ChainBlocks[b], scan.check_success,
                              scan.trace_enabled, agg.code)
          IN /\ sent_txs' = a.sent
             /\ received_txs' = a.recv
             /\ sent_to_contract_txs' = a.toc
             /\ internal_recv_from_contract_txs' = a.internal
             /\ seen_addrs' = a.seen
             /\ contract_cache' = a.cache
             /\ agg' = [agg EXCEPT !.todo = @ \ {b}, !.done = Append(@, b)]
             /\ scan' = [scan EXCEPT !.pc = IF agg.todo = {b} THEN "balances" ELSE "blocks"]
    /\ UNCHANGED <<rpcVars, fetchVars, cls, addrs_in_block, rows, observed, helperVars,
                   stats, getblock>>

\* the rows of the scan, once every block is processed
EmitRows ==
    /\ Emit
    /\ UNCHANGED <<helperVars, moreVars>>

\* scan_range(w3, start_block, end_block, check_success, ..., trace_enabled) before
\* its first block
InitAgg ==
    /\ n_endpoints = 1
    /\ max_retries = 1
    /\ always_fail = {}
    /\ flaky = FALSE
    /\ endpoint_idx = 0
    /\ next_id = 0
    /\ task = [t \in Tasks |-> IdleTask]
    /\ NoFetch
    /\ NoCache
    /\ tcall = NoTraceCall /\ lookup = NoLookup
    /\ stats = [pc |-> "none"] /\ getblock = [pc |-> "none"]
    /\ \E cs \in BOOLEAN, te \in BOOLEAN, sel \in AscendingLists :
          /\ scan = [pc |-> IF sel = <<>> THEN "balances" ELSE "blocks",
                     check_success |-> cs, with_balances |-> FALSE, balance_limit |-> 0,
                     trace_enabled |-> te, bn |-> 0, end_block |-> Len(sel), ntx |-> 0,
                     tx |-> NoTx, trace |-> Unsupported]
          /\ \E code \in CodeMaps :
                agg = [pc |-> "agg", blocks |-> sel, code |-> code, todo |-> Range(sel),
                       done |-> <<>>]
    /\ sent_txs = <<>>
    /\ received_txs = <<>>
    /\ sent_to_contract_txs = <<>>
    /\ internal_recv_from_contract_txs = <<>>
    /\ seen_addrs = {}
    /\ addrs_in_block = {}
    /\ rows = <<>>
    /\ observed = {}

NextAgg == ProcessBlock \/ EmitRows

SpecAgg == InitAgg /\ [][NextAgg]_vars

----------------------------------------------------------------------------
(* The balance and code lookups: batch_get_balance and batch_get_code of   *)
(* scan_eth_highperf_api.py, get_balances of scan_eth_public_rpc.py        *)

\* the address lists the callers pass: no address twice, spelled as the caller has
\* them
LookupAddrs == {<<"a", "b">>, <<"b", "A">>, <<"c", "c">>, <<"C", "a">>}
AddrLists ==
    {s \in SeqsUpTo(LookupAddrs, MaxAddrs) : \A i, j \in 1..Len(s) : s[i] = s[j] => i = j}

\* eth_getCode results: no code, and some code
EmptyCode == <<"0", "x">>
SomeCode == <<"0", "x", "6", "0">>

(* What the node answers for one address: a result string s ("ok", and     *)
(* "junk" when the string is no number), a null result, an error object,   *)
(* or no response item at all ("missing").  wei is the balance the result  *)
(* string of an "ok" balance answer stands for.                            *)
Answer(kind, wei, s) == [kind |-> kind, wei |-> wei, s |-> s]
FailedAnswers == {Answer(k, 0, <<>>) : k \in {"null", "error", "missing"}}
BalanceAnswers ==
    {Answer("ok", n, HexStr(n)) : n \in Amounts}
    \cup {Answer("junk", 0, <<"0", "x", "z">>)} \cup FailedAnswers
CodeAnswers == {Answer("ok", 0, EmptyCode), Answer("ok", 0, SomeCode)} \cup FailedAnswers

\* the response items of the node for the requests req, in request order
WireItems(req, ans) ==
    LET item(i) ==
            CASE ans[i].kind \in {"ok", "junk"} ->
                    Item(req[i].id, FALSE, 0, TRUE, ResultV(StrV(ans[i].s)))
              [] ans[i].kind = "null" -> Item(req[i].id, FALSE, 0, TRUE, NoneV)
              [] ans[i].kind = "error" -> Item(req[i].id, TRUE, 1, FALSE, NoneV)
              [] OTHER -> EmptyItem
    IN SelectSeq([i \in 1..Len(req) |-> item(i)], LAMBDA it : it.id # 0)

\* int(s, 16): the "0x" prefix is optional
ParseBase16(s) == IF StartsWith0x(s) THEN ParseHex(s) ELSE ParseInt(s, 16)

\* batch_get_balance: "wei = int(bal_hex, 16); out[addr.lower()] = wei / 1e18", None
\* after an exception (int() of None or of the dict {"error": e} raises TypeError)
BalanceOf_zero(entry) ==
    IF entry.k = "value" /\ entry.v.t = "str" /\ ParseBase16(entry.v.s).ok
    THEN [k |-> "eth", wei |-> ParseBase16(entry.v.s).n]
    ELSE [k |-> "eth", wei |-> 0]
BalanceOf(entry) ==
    IF entry.k = "value" /\ entry.v.t = "str" /\ ParseBase16(entry.v.s).ok
    THEN [k |-> "eth", wei |-> ParseBase16(entry.v.s).n]
    ELSE NoBalance

\* batch_get_code: 'bool(code and isinstance(code, str) and code != "0x")'
IsCtr(entry) ==
    entry.k = "value" /\ entry.v.t = "str" /\ entry.v.s # <<>> /\ entry.v.s # EmptyCode

\* "out[key] = value" for the keys and values of one loop, in order
RECURSIVE StoreAll(_, _, _)
StoreAll(out, keys, vals) ==
    IF keys = <<>> THEN out
    ELSE StoreAll(DictSet(out, Head(keys), Head(vals)), Tail(keys), Tail(vals))

\* the key under which the lookup fn files the address a
LookupKey(fn, a) == IF fn = "get_balances" THEN a ELSE Lower(a)

\* the slice addrs[i:i+batch_size] the loop is at
Chunk(lk) ==
    SubSeq(lk.addrs, lk.at + 1, Min({lk.at + lk.batch_size, Len(lk.addrs)}))

\* batch_get_balance, batch_get_code: one turn of "for i in range(0, len(addrs),
\* batch_size)": the batch of the slice, answered in any way and in either wire
\* order, and the loop over zip(slice, res)
LookupChunk ==
    /\ lookup.pc = "run"
    /\ lookup.fn \in {"batch_get_balance", "batch_get_code"}
    /\ lookup.at < Len(lookup.addrs)
    /\ LET chunk == Chunk(lookup)
           req == MakeReq(chunk, next_id)
       IN \E ans \in [1..Len(chunk) -> IF lookup.fn = "batch_get_balance"
                                       THEN BalanceAnswers ELSE CodeAnswers] :
             \E f \in WireOrders(Len(WireItems(req, ans))) :
                LET res == BatchOut(req, Permuted(WireItems(req, ans), f))
                    keys == [i \in 1..Len(chunk) |-> LookupKey(lookup.fn, chunk[i])]
                    vals == [i \in 1..Len(chunk) |->
                                IF lookup.fn = "batch_get_balance"
                                THEN BalanceOf(res[i]) ELSE IsCtr(res[i])]
                IN lookup' = [lookup EXCEPT !.at = @ + lookup.batch_size,
                                            !.answers = @ \o ans,
                                            !.out = StoreAll(@, keys, vals)]
    /\ next_id' = next_id + Len(Chunk(lookup))
    /\ UNCHANGED <<n_endpoints, max_retries, always_fail, flaky, endpoint_idx, task>>
    /\ UNCHANGED <<fetchVars, cacheVars, scanVars, tcall, moreVars>>

\* batch_get_balance, batch_get_code: client.batch raises (the transport gave up, or
\* the response is no list) and the lookup raises with it
LookupChunkRaises ==
    /\ lookup.pc = "run"
    /\ lookup.fn \in {"batch_get_balance", "batch_get_code"}
    /\ lookup.at < Len(lookup.addrs)
    /\ lookup' = [lookup EXCEPT !.pc = "raised"]
    /\ next_id' = next_id + Len(Chunk(lookup))
    /\ UNCHANGED <<n_endpoints, max_retries, always_fail, flaky, endpoint_idx, task>>
    /\ UNCHANGED <<fetchVars, cacheVars, scanVars, tcall, moreVars>>

\* batch_get_balance, batch_get_code: "return out"
LookupReturn ==
    /\ lookup.pc = "run"
    /\ lookup.fn \in {"batch_get_balance", "batch_get_code"}
    /\ lookup.at >= Len(lookup.addrs)
    /\ lookup' = [lookup EXCEPT !.pc = "done"]
    /\ UNCHANGED <<rpcVars, fetchVars, cacheVars, scanVars, tcall, moreVars>>

\* get_balances: the loop over addrs; w3.eth.get_balance returns the balance in wei
\* or raises
GetBalances ==
    /\ lookup.pc = "run"
    /\ lookup.fn = "get_balances"
    /\ \E ans \in [1..Len(lookup.addrs) -> BalanceAnswers] :
          lookup' = [lookup EXCEPT
                        !.pc = "done", !.answers = ans, !.at = Len(lookup.addrs),
                        !.out = StoreAll(<<>>,
                                   [i \in 1..Len(lookup.addrs) |->
                                       LookupKey(lookup.fn, lookup.addrs[i])],
                                   [i \in 1..Len(lookup.addrs) |->
                                       GetBalance([ok |-> ans[i].kind = "ok",
                                                   wei |-> ans[i].wei])])]
    /\ UNCHANGED <<rpcVars, fetchVars, cacheVars, scanVars, tcall, moreVars>>

InitLookup ==
    /\ n_endpoints = 1
    /\ max_retries = 1
    /\ always_fail = {}
    /\ flaky = FALSE
    /\ endpoint_idx = 0
    /\ next_id = 0
    /\ task = [t \in Tasks |-> IdleTask]
    /\ NoFetch
    /\ NoCache
    /\ NoScan
    /\ tcall = NoTraceCall
    /\ NoMore
    /\ \E fn \in {"batch_get_balance", "batch_get_code", "get_balances"},
          addrs \in AddrLists, batch_size \in 1..MaxBatchSize :
          lookup = [NoLookup EXCEPT !.pc = "run", !.fn = fn, !.addrs = addrs,
                                    !.batch_size = batch_size]

NextLookup == LookupChunk \/ LookupChunkRaises \/ LookupReturn \/ GetBalances

SpecLookup == InitLookup /\ [][NextLookup]_vars

----------------------------------------------------------------------------
(* classify_for_address of batch_eth_stats_ai.py *)

\* an entry of Etherscan's txlist or txlistinternal
EsTx(isError, from, to) == [isError |-> isError, from |-> from, to |-> to]

\* the lists fetch_external_txs and fetch_internal_txs return for the address Ab:
\* transactions it sent, received, sent to itself, and that do not name it;
\* transfers to an address that may hold code; contract creations; failed ones
ExtTxs ==
    {EsTx(e, f, t) : e \in {"0", "1"}, f \in {<<"a", "B">>, <<"c", "c">>},
                     t \in {<<"b", "A">>, <<"A", "b">>, NoAddr}}
InternalTxs == {EsTx(e, <<"b", "a">>, t) : e \in {"0", "1"}, t \in {<<"a", "B">>, <<"c", "c">>}}

\* what the eth_getCode proxy answers for the recipients: ba may hold code
EsCodeMaps ==
    {[a \in LowerAddrs |-> IF a = <<"b", "a">> THEN c ELSE "0x"] :
        c \in {"raise", "0x", "null", "code"}}

\* the counters of classify_for_address, the contract cache, and whether
\* is_contract has raised
Tally(sent, recv, toc, cache, raised) ==
    [sent |-> sent, recv |-> recv, toc |-> toc, cache |-> cache, raised |-> raised]

\* classify_for_address, the body of "for tx in ext" (lines 120-135)
ClassifyExt(t, tx, addr, code) ==
    LET frm == Lower(tx.from)
        to == Lower(tx.to)
        r == EsIsContract(to, code[to], t.cache)
    IN IF t.raised \/ tx.isError = "1" THEN t
       ELSE IF frm = addr
            THEN IF to # NoAddr
                 THEN IF r.outcome = "raised" THEN [t EXCEPT !.raised = TRUE]
                      ELSE IF r.value
                           THEN [t EXCEPT !.toc = @ + 1, !.cache = r.cache]
                           ELSE [t EXCEPT !.sent = @ + 1, !.cache = r.cache]
                 ELSE t
            ELSE IF to = addr THEN [t EXCEPT !.recv = @ + 1]
            ELSE t

\* classify_for_address: "for tx in ext"
RECURSIVE ClassifyAllExt(_, _, _, _)
ClassifyAllExt(t, ext, addr, code) ==
    IF ext = <<>> THEN t
    ELSE ClassifyAllExt(ClassifyExt(t, Head(ext), addr, code), Tail(ext), addr, code)

\* classify_for_address, "for itx in internal" (lines 138-142)
RECURSIVE CountInternal(_, _)
CountInternal(internal, addr) ==
    IF internal = <<>> THEN 0
    ELSE (IF Head(internal).isError # "1" /\ Lower(Head(internal).to) = addr THEN 1 ELSE 0)
            + CountInternal(Tail(internal), addr)

\* classify_for_address, the dict it returns (lines 144-157)
StatsRow(address, balance, t, received_from_contract, ext, internal) ==
    [address |-> address,
     eth_balance |-> balance,
     total_txs |-> Len(ext) + Len(internal),
     sent_txs |-> t.sent,
     received_txs |-> t.recv,
     sent_to_contract_txs |-> t.toc,
     received_from_contract_txs |-> received_from_contract,
     external_txs |-> Len(ext),
     internal_txs |-> Len(internal)]
NoRow == StatsRow(NoAddr, NoBalance, Tally(0, 0, 0, <<>>, FALSE), 0, <<>>, <<>>)

\* classify_for_address(address, contract_cache) as a whole: get_eth_balance, the
\* two lists, the two loops and the record; it raises when get_eth_balance or
\* is_contract does
ClassifyForAddress ==
    /\ stats.pc = "start"
    /\ \E balance \in BalanceReplies :
          LET addr == Lower(stats.address)
              t == ClassifyAllExt(Tally(0, 0, 0, contract_cache, FALSE), stats.ext, addr,
                                  stats.code)
          IN IF ~balance.ok \/ t.raised
             THEN /\ stats' = [stats EXCEPT !.pc = "raised"]
                  /\ contract_cache' = IF balance.ok THEN t.cache ELSE contract_cache
             ELSE /\ stats' = [stats EXCEPT
                        !.pc = "returned",
                        !.row = StatsRow(stats.address, GetBalance(balance), t,
                                         CountInternal(stats.internal, addr),
                                         stats.ext, stats.internal)]
                  /\ contract_cache' = t.cache
    /\ UNCHANGED <<rpcVars, fetchVars, cls, scanVars, helperVars, agg, getblock>>

\* main: classify_for_address is called for an address with an empty cache; the
\* lists are what Etherscan returns for the address
InitStats ==
    /\ n_endpoints = 1
    /\ max_retries = 1
    /\ always_fail = {}
    /\ flaky = FALSE
    /\ endpoint_idx = 0
    /\ next_id = 0
    /\ task = [t \in Tasks |-> IdleTask]
    /\ NoFetch
    /\ NoCache
    /\ NoScan
    /\ tcall = NoTraceCall /\ lookup = NoLookup
    /\ agg = [pc |-> "none"] /\ getblock = [pc |-> "none"]
    /\ \E ext \in SeqsUpTo(ExtTxs, MaxExt), internal \in SeqsUpTo(InternalTxs, MaxInternal),
          code \in EsCodeMaps :
          stats = [pc |-> "start", address |-> <<"A", "b">>, ext |-> ext,
                   internal |-> internal, code |-> code, row |-> NoRow]

NextStats == ClassifyForAddress

SpecStats == InitStats /\ [][NextStats]_vars

----------------------------------------------------------------------------
(* get_block_with_retries of scan_eth_public_rpc.py *)

\* "if attempt <= max_retry: ... continue", else "raise": the test of the handlers
\* of an invalid response and of an unexpected error
RetryAfterError_always(attempt, max_retry) == TRUE
RetryAfterError(attempt, max_retry) == attempt <= max_retry

\* "if attempt >= max_retry: raise RuntimeError" at the end of the loop body, which
\* only the handler of a network error falls through to
GivesUpAfterNetworkError(attempt, max_retry) == attempt >= max_retry

\* connect_any(endpoints) in the handler of a network error: it returns a
\* connection or raises SystemExit once every endpoint has failed; iterating over
\* endpoints = None (the default of scan_range) raises TypeError
Reconnects(endpoints) ==
    IF endpoints = "none" THEN {"TypeError"} ELSE {"connected", "SystemExit"}

\* the label of an error in the history of a call
NetworkError(rc) == IF rc = "SystemExit" THEN "network_no_endpoint" ELSE "network"

\* one pass of "while True" in which w3.eth.get_block returns the block
GetBlockReturns ==
    /\ getblock.pc = "try"
    /\ getblock.attempt < AttemptCap
    /\ getblock' = [getblock EXCEPT !.attempt = @ + 1, !.pc = "returned"]
    /\ UNCHANGED <<rpcVars, fetchVars, cacheVars, scanVars, helperVars, agg, stats>>

\* one pass in which get_block raises a network or SSL error: sleep, reconnect
\* (SystemExit is swallowed, any other exception of connect_any leaves the
\* function), then the test at the end of the loop body
GetBlockNetworkError ==
    /\ getblock.pc = "try"
    /\ getblock.attempt < AttemptCap
    /\ \E rc \in Reconnects(getblock.endpoints) :
          LET attempt == getblock.attempt + 1
          IN getblock' = [getblock EXCEPT
                 !.attempt = attempt,
                 !.errors = Append(@, NetworkError(rc)),
                 !.pc = IF rc = "TypeError"
                           \/ GivesUpAfterNetworkError(attempt, getblock.max_retry)
                        THEN "raised" ELSE "try"]
    /\ UNCHANGED <<rpcVars, fetchVars, cacheVars, scanVars, helperVars, agg, stats>>

\* one pass in which get_block raises ValueError or ContractLogicError
\* ("invalid"), or any other Exception ("unexpected")
GetBlockOtherError ==
    /\ getblock.pc = "try"
    /\ getblock.attempt < AttemptCap
    /\ \E kind \in {"invalid", "unexpected"} :
          LET attempt == getblock.attempt + 1
          IN getblock' = [getblock EXCEPT
                 !.attempt = attempt,
                 !.errors = Append(@, kind),
                 !.pc = IF RetryAfterError(attempt, getblock.max_retry)
                        THEN "try" ELSE "raised"]
    /\ UNCHANGED <<rpcVars, fetchVars, cacheVars, scanVars, helperVars, agg, stats>>

\* a call get_block_with_retries(w3, bn, endpoints, max_retry): attempt = 0
InitGetBlock ==
    /\ n_endpoints = 1
    /\ max_retries = 1
    /\ always_fail = {}
    /\ flaky = FALSE
    /\ endpoint_idx = 0
    /\ next_id = 0
    /\ task = [t \in Tasks |-> IdleTask]
    /\ NoFetch
    /\ NoCache
    /\ NoScan
    /\ tcall = NoTraceCall /\ lookup = NoLookup
    /\ agg = [pc |-> "none"] /\ stats = [pc |-> "none"]
    /\ \E max_retry \in 0..MaxBlockRetry, endpoints \in {"list", "none"} :
          getblock = [pc |-> "try", attempt |-> 0, max_retry |-> max_retry,
                      endpoints |-> endpoints, errors |-> <<>>]

NextGetBlock == GetBlockReturns \/ GetBlockNetworkError \/ GetBlockOtherError

SpecGetBlock == InitGetBlock /\ [][NextGetBlock]_vars

\* get_block, time.sleep and connect_any all come back (the requests have
\* timeouts, the sleeps are finite), so a pass of the loop that can run does
SpecGetBlockLive == SpecGetBlock /\ WF_vars(NextGetBlock)

----------------------------------------------------------------------------
(* Properties of RPCClient *)

\* _post has returned a response body to call or batch
PostReturned(t) == task[t].pc \in {"returned", "raised_rpc"} /\ task[t].wire.t # "none"

\* C1: batch returns, for a non-empty request list answered by a JSON array that
\* is a permutation of the per-request responses, a list as long as the request
\* list whose entry i is the result, or the {error} value, of the response that
\* carries the id of request i.
C1_BatchMapsById ==
    \A t \in Tasks :
        (task[t].kind = "batch" /\ task[t].pc = "returned" /\ task[t].wire.perm) =>
            /\ Len(task[t].out) = Len(task[t].req)
            /\ \A i \in 1..Len(task[t].req) :
                  \E j \in 1..Len(task[t].wire.items) :
                     LET item == task[t].wire.items[j]
                     IN /\ item.id = task[t].req[i].id
                        /\ task[t].out[i] =
                              (IF item.has_error THEN ErrorV(item.error) ELSE item.result)

\* a batch of two or more requests answered out of order, with a result and an error
C1_Witness ==
    \E t \in Tasks :
        /\ task[t].kind = "batch" /\ task[t].pc = "returned" /\ task[t].wire.perm
        /\ Len(task[t].req) >= 2
        /\ task[t].wire.items[1].id # task[t].req[1].id
        /\ \E i, j \in 1..Len(task[t].out) :
              task[t].out[i].k = "error" /\ task[t].out[j].k = "value"

\* C4: with one endpoint that always fails, every other endpoint always
\* succeeding and max_retries >= 3, no _post exhausts its retry budget, also when
\* several _post calls share the client.
C4_FailoverNeverExhausts ==
    (n_endpoints >= 2 /\ Cardinality(always_fail) = 1 /\ ~flaky /\ max_retries >= 3) =>
        \A t \in Tasks : task[t].pc # "raised_transport"

\* C5 as stated: a _post that failed k < max_retries times and then succeeded
\* returns after k failed attempts and at most one endpoint rotation.
C5_AtMostOneRotation ==
    \A t \in Tasks :
        PostReturned(t) =>
            /\ task[t].fails < max_retries
            /\ task[t].posts = task[t].fails + 1
            /\ task[t].rots <= 1

\* C5 amended: a _post that failed k < max_retries times and then succeeded
\* returns after exactly k failed attempts, k sleeps and k - 1 rotations when
\* k >= 2 and the pool has more than one endpoint, none otherwise.
C5_RetriesAndRotations ==
    \A t \in Tasks :
        PostReturned(t) =>
            /\ task[t].fails < max_retries
            /\ task[t].posts = task[t].fails + 1
            /\ task[t].sleeps = task[t].fails
            /\ task[t].rots =
                  (IF n_endpoints > 1 /\ task[t].fails >= 2 THEN task[t].fails - 1 ELSE 0)

\* a _post that succeeded on its fourth attempt after two rotations
C5_Witness ==
    \E t \in Tasks : PostReturned(t) /\ task[t].fails = 3 /\ task[t].rots = 2

\* C6: when every POST fails, _post raises after exactly max_retries attempts,
\* never fewer, never more, and returns no value.
C6_ExhaustionAfterMaxRetries ==
    \A t \in Tasks :
        /\ task[t].posts <= max_retries
        /\ task[t].pc = "raised_transport" =>
              /\ task[t].posts = max_retries
              /\ task[t].fails = max_retries
              /\ task[t].out = <<>>
              /\ task[t].wire = NoWire
        /\ task[t].fails = max_retries => task[t].pc \in {"sleeping", "raised_transport"}

\* a _post that raised after three failed attempts
C6_Witness ==
    \E t \in Tasks :
        task[t].pc = "raised_transport" /\ max_retries = 3 /\ task[t].posts = 3

\* C7: a response body with an error field makes call raise, and a single error
\* object answering a batch makes batch raise, with no POST after the one that
\* delivered it: one POST, no sleep and no rotation when that POST was the first;
\* no result and no partial result list is returned.
C7_RpcErrorNotRetried ==
    \A t \in Tasks :
        (task[t].wire.t = "dict" /\ task[t].wire.obj.has_error) =>
            /\ task[t].pc = "raised_rpc"
            /\ task[t].out = <<>>
            /\ task[t].posts = task[t].fails + 1
            /\ task[t].sleeps = task[t].fails
            /\ task[t].fails = 0 => (task[t].posts = 1 /\ task[t].rots = 0)

\* a batch of two requests answered by one error object on the first POST
C7_Witness ==
    \E t \in Tasks :
        /\ task[t].kind = "batch" /\ Len(task[t].req) = 2
        /\ task[t].wire = DictWire(ErrorObject)
        /\ task[t].pc = "raised_rpc" /\ task[t].posts = 1

----------------------------------------------------------------------------
(* Properties of fetch_blocks *)

\* C2: whatever the order in which the windows complete, and also when a window
\* fails and succeeds on a retry, fetch_blocks returns a list as long as its input
\* whose entry i is the response to the request for block_numbers[i].
C2_FetchPreservesOrder ==
    (fetch.pc = "returned" /\ \A w \in Windows : task[w].wire.perm) =>
        /\ Len(fetch.ret) = Len(block_numbers)
        /\ \A i \in 1..Len(block_numbers) :
              LET w == ((i - 1) \div Window) + 1
                  r == task[w].req[i - StartIdx(w)]
              IN /\ r.p = block_numbers[i]
                 /\ \E j \in 1..Len(task[w].wire.items) :
                       LET item == task[w].wire.items[j]
                       IN /\ item.id = r.id
                          /\ fetch.ret[i] =
                                (IF item.has_error THEN ErrorV(item.error) ELSE item.result)
                 /\ fetch.ret[i].k = "block" => fetch.ret[i].v = block_numbers[i]

\* three windows, the middle one failed once and succeeded on the retry, the
\* last one finished first, and the responses of the first one arrived reversed
C2_Witness ==
    /\ fetch.pc = "returned"
    /\ \A w \in Windows : task[w].wire.perm
    /\ Cardinality(Windows) = 3
    /\ task[2].fails = 1
    /\ fetch.done[1] = 2 /\ fetch.done[2] = 1
    /\ task[1].wire.items[1].id # task[1].req[1].id
    /\ \E i \in 1..Len(fetch.ret) : fetch.ret[i].k = "block"

\* the batch call of a window has raised: _post gave up after its retries, or the
\* response was not a list
WindowRaised == \E w \in Windows : task[w].pc \in {"raised_transport", "raised_rpc"}

\* C22: once the batch call of a window has raised, fetch_blocks never returns a
\* block list, and it raises to its caller, however many other windows have
\* completed and written their slots.
C22_FetchAllOrNothing ==
    /\ [](WindowRaised => (fetch.pc # "returned" /\ fetch.ret = <<>>))
    /\ (WindowRaised ~> fetch.pc = "raised")

\* fetch_blocks has raised because the second window exhausted its retries, after
\* the first window had written its twenty slots
C22_Witness ==
    /\ fetch.pc = "raised" /\ fetch.ret = <<>>
    /\ task[2].pc = "raised_transport"
    /\ task[1].pc = "returned"
    /\ fetch.done[1] = 1
    /\ \A i \in 1..Window : blocks[i].k = "block"

\* C23: once a window has failed with the transport error (retries exhausted) and
\* fetch_blocks has raised it to its caller, the other windows are cancelled: no
\* window sends a further POST and no slot of blocks is written any more.
C23_CancelledAfterFatalError ==
    [][(fetch.pc = "raised" /\ \E w \in Windows : task[w].pc = "raised_transport") =>
          /\ blocks' = blocks
          /\ \A w \in Windows :
                (task'[w].pc = "posting") => (task[w].pc = "posting")]_vars

\* the windows inside "async with sem": their batch request is outstanding, or
\* _post sleeps between two attempts
Holders == {w \in Windows : task[w].pc \in {"posting", "sleeping"}}

\* C24: at any time at most `concurrency` windows are inside "async with sem" (and
\* so at most that many have an outstanding batch request), the semaphore counts
\* the permits that are left, and every window eventually enters, as the windows
\* that hold the permits return or raise.
C24_BoundedConcurrency ==
    /\ [](/\ Cardinality(Holders) <= concurrency
          /\ sem = concurrency - Cardinality(Holders))
    /\ \A w \in 1..MaxWindows : []((w \in Windows) => <>(task[w].pc # "idle"))

\* with two permits for three windows, the third window has entered after the first
\* one exhausted its retries, while the second one sleeps before a retry
C24_Witness ==
    /\ concurrency = 2 /\ Cardinality(Windows) = 3
    /\ task[1].pc = "raised_transport"
    /\ task[2].pc = "sleeping"
    /\ task[3].pc = "posting"
    /\ sem = 0

\* the indexes of block_numbers that window w asks for
SliceOf(w) == {StartIdx(w) + j : j \in 1..Len(SliceNums(block_numbers, StartIdx(w)))}

\* the windows whose batch call has been made and asks for block_numbers[i] at the
\* place that belongs to index i
Asking(i) ==
    {w \in Windows : /\ task[w].pc # "idle"
                     /\ i - StartIdx(w) \in 1..Len(task[w].req)
                     /\ task[w].req[i - StartIdx(w)].p = block_numbers[i]}

\* C26: the windows of fetch_blocks are consecutive slices of at most 20 indexes
\* that partition the indexes of the input; every index is asked for by at most one
\* batch call, and by exactly one once every window has made its call (a retry
\* re-sends the same batch); no request id is used twice; no slot is written twice,
\* and when fetch_blocks returns every slot has been written exactly once.  This
\* for the input lengths 0, 1, 19, 20, 21 and one more than a multiple of 20.
C26_NoLostNoDuplicatedBlocks ==
    LET slice == [w \in Windows |-> SliceOf(w)]
        started == {w \in Windows : task[w].pc # "idle"}
        ids == [w \in started |-> {task[w].req[j].id : j \in 1..Len(task[w].req)}]
    IN /\ \A w \in Windows :
             /\ slice[w] # {}
             /\ Cardinality(slice[w]) <= 20
             /\ slice[w] = Min(slice[w])..Max(slice[w])
             /\ \A v \in Windows : v # w => slice[v] \cap slice[w] = {}
       /\ UNION {slice[w] : w \in Windows} = 1..Len(block_numbers)
       /\ \A i \in 1..Len(block_numbers) :
             /\ Cardinality(Asking(i)) <= 1
             /\ started = Windows => Cardinality(Asking(i)) = 1
             /\ fetch.writes[i] <= 1
             /\ fetch.pc = "returned" => fetch.writes[i] = 1
       /\ \A w \in started :
             /\ Len(task[w].req) = Cardinality(slice[w])
             /\ Cardinality(ids[w]) = Len(task[w].req)
             /\ \A v \in started : v # w => ids[v] \cap ids[w] = {}
       /\ fetch.pc = "returned" => Len(fetch.ret) = Len(block_numbers)

\* 41 blocks in three windows, the last one of a single block; the second window
\* failed once and was sent again; fetch_blocks has returned
C26_Witness ==
    /\ Len(block_numbers) = 2 * Window + 1
    /\ fetch.pc = "returned"
    /\ task[2].fails = 1 /\ task[2].posts = 2
    /\ Len(task[3].req) = 1
    /\ \A i \in 1..Len(block_numbers) : fetch.writes[i] = 1

\* C27: every entry of the list fetch_blocks returns is the block with the number
\* that was asked for at that index, or null; the {error} value that batch makes
\* of a per-item error of the provider is not among the entries.
C27_BlocksOrNull ==
    fetch.pc = "returned" =>
        \A i \in 1..Len(fetch.ret) :
            \/ fetch.ret[i] = NoneV
            \/ fetch.ret[i] = BlockV(block_numbers[i])

----------------------------------------------------------------------------
(* Properties of the contract cache *)

C9_CacheMonotonic ==
    [][/\ \A a \in DOMAIN contract_cache :
             a \in DOMAIN contract_cache' /\ contract_cache'[a] = contract_cache[a]
       /\ (cls'.calls # cls.calls /\ cls'.last.outcome = "raised") =>
             contract_cache' = contract_cache]_vars

\* the cache holds entries, a cached address was requested again, and the last
\* call was a failed lookup of an address that has no entry
C9_Witness ==
    /\ Cardinality(DOMAIN contract_cache) >= 2
    /\ cls.calls > Cardinality(DOMAIN contract_cache) + 1
    /\ cls.last.outcome = "raised"
    /\ Lower(cls.last.addr) \notin DOMAIN contract_cache

----------------------------------------------------------------------------
(* Properties of scan_range *)

\* C3: every row emitted by scan_range has total_txs = external_txs + internal_txs
\* and external_txs = sent_txs + received_txs, whatever the blocks, the
\* transactions and the options.
C3_RowTotals ==
    scan.pc = "done" =>
        \A i \in 1..Len(rows) :
            /\ rows[i].total_txs = rows[i].external_txs + rows[i].internal_txs
            /\ rows[i].external_txs = rows[i].sent_txs + rows[i].received_txs

\* a row with every counter positive, from a scan with success filtering, tracing,
\* balances and a balance limit
C3_Witness ==
    /\ scan.pc = "done"
    /\ scan.check_success /\ scan.trace_enabled /\ scan.with_balances
    /\ scan.balance_limit > 0
    /\ \E i \in 1..Len(rows) :
          /\ rows[i].sent_txs > 0 /\ rows[i].received_txs > 0
          /\ rows[i].sent_to_contract_txs > 0 /\ rows[i].internal_txs > 0
          /\ rows[i].eth_balance.k = "eth"

\* C10: scan_range emits exactly one row for every address that was the sender or
\* the recipient of a counted transaction, for every with_balances and
\* balance_limit.
C10_OneRowPerObserved ==
    scan.pc = "done" =>
        \A a \in observed : Cardinality({i \in 1..Len(rows) : rows[i].address = a}) = 1

\* the recipient is classified as a contract: the cache holds TRUE for it
IsClassifiedContract(cache, r) ==
    CacheKey(r) \in DOMAIN cache /\ cache[CacheKey(r)]

\* C11: a counted transaction with sender s and non-empty recipient r adds exactly 1
\* to sent_txs[s] and exactly 1 to received_txs[r] and nothing to any other key,
\* and adds exactly 1 to sent_to_contract_txs[s] if and only if r is classified as
\* a contract; after one transaction A -> B, A.sent_txs = 1, B.received_txs = 1,
\* A.sent_to_contract_txs is 1 when B is a contract and 0 otherwise, and
\* B.sent_to_contract_txs = 0.
C11_StepCounts ==
    (scan'.ntx = scan.ntx + 1 /\ scan'.tx.counted
        /\ scan'.tx.from # NoAddr /\ scan'.tx.to # NoAddr) =>
        LET s == Lower(scan'.tx.from)
            r == Lower(scan'.tx.to)
        IN /\ sent_txs' = Add(sent_txs, s, 1)
           /\ received_txs' = Add(received_txs, r, 1)
           /\ sent_to_contract_txs' =
                 IF IsClassifiedContract(contract_cache', r)
                 THEN Add(sent_to_contract_txs, s, 1)
                 ELSE sent_to_contract_txs
C11_OneTransaction ==
    (scan.pc = "txs" /\ scan.bn = 1 /\ scan.ntx = 1 /\ scan.tx.counted
        /\ scan.tx.from # NoAddr /\ scan.tx.to # NoAddr
        /\ Lower(scan.tx.from) # Lower(scan.tx.to)) =>
        LET A == Lower(scan.tx.from)
            B == Lower(scan.tx.to)
        IN /\ Get(sent_txs, A) = 1
           /\ Get(received_txs, B) = 1
           /\ Get(sent_to_contract_txs, A) =
                 (IF IsClassifiedContract(contract_cache, B) THEN 1 ELSE 0)
           /\ Get(sent_to_contract_txs, B) = 0
C11_TxClassification == [][C11_StepCounts]_vars /\ []C11_OneTransaction

\* the second transaction of a block goes from A to the contract B, after a first
\* one from A to itself: A has sent twice and B received once
C11_Witness ==
    /\ scan.pc = "txs" /\ scan.ntx = 2 /\ scan.tx.counted
    /\ scan.check_success
    /\ Lower(scan.tx.from) = <<"a", "b">> /\ Lower(scan.tx.to) = <<"b", "a">>
    /\ IsClassifiedContract(contract_cache, <<"b", "a">>)
    /\ Get(sent_txs, <<"a", "b">>) = 2
    /\ Get(received_txs, <<"a", "b">>) = 1
    /\ Get(received_txs, <<"b", "a">>) = 1
    /\ Get(sent_to_contract_txs, <<"a", "b">>) = 1

\* the step of scan_range that traces the block it has just read, and gets a
\* payload it uses ("if method and payload")
TracedBlock ==
    /\ scan.pc = "txs" /\ scan.trace_enabled
    /\ scan'.pc \in {"txs", "balances"}
    /\ scan'.bn # scan.bn \/ scan'.pc = "balances"
    /\ Truthy(scan'.trace)

\* C12 as stated: in a block whose trace is available, every address B that
\* receives n >= 1 internal transfers of positive value in the trace has its
\* received_from_contract_txs counter increased by n, whether or not B is the
\* sender or the recipient of a transaction of the block.
C12_AnyRecipientCounted ==
    [][TracedBlock =>
         \A B \in LowerAddrs :
            LET n == CountInternalReceives(scan'.trace, B)
            IN (~n.raised /\ n.cnt >= 1) =>
                  Get(internal_recv_from_contract_txs', B) =
                      Get(internal_recv_from_contract_txs, B) + n.cnt]_vars

\* C12 amended: in a block whose trace is available, an address B that is the
\* sender or the recipient of a transaction of that block (counted or skipped) and
\* receives n >= 1 internal transfers of positive value in the trace has its counter
\* increased by n and is observed; the counter of an address that is neither sender
\* nor recipient in the block does not change; and every row that is emitted reports
\* the counter of its address as received_from_contract_txs and as internal_txs.
C12_StepCounts ==
    TracedBlock =>
        \A B \in LowerAddrs :
            LET n == CountInternalReceives(scan'.trace, B)
            IN IF B \in addrs_in_block /\ ~n.raised
               THEN /\ Get(internal_recv_from_contract_txs', B) =
                          Get(internal_recv_from_contract_txs, B) + n.cnt
                    /\ n.cnt >= 1 => B \in seen_addrs'
               ELSE Get(internal_recv_from_contract_txs', B) =
                        Get(internal_recv_from_contract_txs, B)
C12_RowsReportCounter ==
    scan.pc = "done" =>
        \A i \in 1..Len(rows) :
            /\ rows[i].received_from_contract_txs =
                  Get(internal_recv_from_contract_txs, rows[i].address)
            /\ rows[i].internal_txs = rows[i].received_from_contract_txs
C12_BlockAddressesCounted == [][C12_StepCounts]_vars /\ []C12_RowsReportCounter

\* a call-tree trace in which the address ab receives two transfers (10 and 3) has
\* just been counted, and ab, which no counted transaction names, is observed
C12_Witness ==
    /\ scan.pc \in {"txs", "balances"}
    /\ scan.trace.method = "debug_trace" /\ Truthy(scan.trace)
    /\ CountInternalReceives(scan.trace, <<"a", "b">>).cnt = 2
    /\ Get(internal_recv_from_contract_txs, <<"a", "b">>) = 2
    /\ <<"a", "b">> \in seen_addrs
    /\ <<"a", "b">> \notin observed

\* C13: with check_success, a transaction whose status lookup does not report
\* success is skipped entirely: the rows are those of the same blocks without it,
\* for every setting of trace_enabled.  Without the skipped transactions the only
\* addresses scan_range ever sees are the senders and recipients of the counted
\* ones, so every row belongs to one of them.
C13_SkippedLeavesNoRow ==
    (scan.pc = "done" /\ scan.check_success) =>
        \A i \in 1..Len(rows) : rows[i].address \in observed

\* the step of a trace-enabled scan_range that ends block bn: neither the body of
\* "for tx in txs" for one more transaction, nor the failure to read the block
\* (which raises before any transaction of the block)
EndsTracedBlock ==
    /\ scan.pc = "txs" /\ scan.trace_enabled
    /\ ~(scan'.bn = scan.bn /\ scan'.ntx = scan.ntx + 1)
    /\ ~(scan.ntx = 0 /\ scan'.pc = "raised")

\* C21: in a trace-enabled scan, when try_trace_block returns (None, None) for a
\* block (both trace methods failed), scan_range does not raise: it goes on with the
\* next block, or with the balances after the last block, and sent_txs,
\* received_txs and sent_to_contract_txs are what the transactions of the block
\* made them, as at the end of a block of a scan with tracing disabled.
C21_UnsupportedTraceIsSoft ==
    [][(EndsTracedBlock /\ scan'.trace = Unsupported) =>
          /\ scan'.pc = (IF scan.bn < scan.end_block THEN "txs" ELSE "balances")
          /\ scan.bn < scan.end_block => (scan'.bn = scan.bn + 1 /\ scan'.ntx = 0)
          /\ UNCHANGED <<sent_txs, received_txs, sent_to_contract_txs>>]_vars

\* both trace methods have failed for block 1, whose transactions were counted, and
\* the scan is at block 2
C21_Witness ==
    /\ scan.pc = "txs" /\ scan.trace_enabled
    /\ scan.bn = 2 /\ scan.ntx = 0
    /\ scan.trace = Unsupported
    /\ Get(sent_txs, <<"a", "b">>) = MaxTxs
    /\ Get(sent_to_contract_txs, <<"a", "b">>) >= 1
    /\ internal_recv_from_contract_txs = <<>>

\* C30: in every row scan_range emits, sent_to_contract_txs <= sent_txs, also when
\* the blocks hold contract creations, transactions without a sender and
\* transactions whose contract lookup fails; during the scan the same holds of the
\* two counters of every address seen.
C30_ToContractWithinSent ==
    /\ \A a \in seen_addrs : Get(sent_to_contract_txs, a) <= Get(sent_txs, a)
    /\ scan.pc = "done" =>
          \A i \in 1..Len(rows) : rows[i].sent_to_contract_txs <= rows[i].sent_txs

\* the rows are out after a transaction without a sender to the contract ba (it is
\* counted under the empty key, which has no row), one from ab to ba, one contract
\* creation by ab, and one from ab to itself whose lookup failed: the row of ab
\* has sent_txs = 3 and sent_to_contract_txs = 1
C30_Witness ==
    /\ scan.pc = "done"
    /\ Get(sent_to_contract_txs, NoAddr) = 1
    /\ Get(received_txs, <<"b", "a">>) = 2 /\ Get(received_txs, <<"a", "b">>) = 1
    /\ <<"a", "b">> \notin DOMAIN contract_cache
    /\ \E i \in 1..Len(rows) :
          /\ rows[i].address = <<"a", "b">>
          /\ rows[i].sent_txs = 3 /\ rows[i].sent_to_contract_txs = 1

----------------------------------------------------------------------------
(* Properties of the trace helpers *)

\* a method has failed: the request raised or the node answered with an error; for
\* try_trace_block also when trace_block answered without a list
MethodAFailed(impl, kind) ==
    kind \in {"raise", "error"} \/ (impl = "public_rpc" /\ kind = "null")
MethodBFailed(kind) == kind \in {"raise", "error"}

\* C14: tracing one block always requests trace_block first, requests
\* debug_traceBlockByNumber only after trace_block has failed and never when it
\* succeeded, returns the tag of the method that succeeded, and returns (None, None),
\* without raising, when both fail.
C14_TraceFallbackOrder ==
    tcall.pc \in {"returned", "counted"} =>
        LET req == tcall.requests
            a_failed == MethodAFailed(tcall.impl, tcall.replies[1])
            b_failed == MethodBFailed(tcall.replies[2])
        IN /\ Len(req) \in {1, 2}
           /\ req[1] = "trace_block"
           /\ Len(req) = 2 <=> a_failed
           /\ Len(req) = 2 => req[2] = "debug_traceBlockByNumber"
           /\ tcall.trace.method = (IF ~a_failed THEN "trace_block"
                                    ELSE IF ~b_failed THEN "debug_trace" ELSE "none")
           /\ (a_failed /\ b_failed) => tcall.trace = Unsupported

\* try_trace_one_block gets an error for trace_block and a call tree for
\* debug_traceBlockByNumber
C14_Witness ==
    /\ tcall.pc = "returned" /\ tcall.impl = "highperf"
    /\ tcall.replies = <<"error", "payload">>
    /\ tcall.requests = <<"trace_block", "debug_traceBlockByNumber">>
    /\ tcall.trace.method = "debug_trace" /\ tcall.trace.trees # <<>>

\* the amount a value field stands for, when it is one of the three encodings of
\* an amount; 0 otherwise
IsAmount(v) == \E enc \in Encodings, n \in 0..MaxAmount : v = Val(enc, n)
Amount(v) ==
    IF IsAmount(v)
    THEN CHOOSE n \in 0..MaxAmount : \E enc \in Encodings : v = Val(enc, n)
    ELSE 0

\* C15: for method A the count is the number of list entries whose type is call,
\* create or suicide, whose action.to is the target up to case and whose value is
\* strictly positive; every other entry contributes nothing.
C15_FlatCount ==
    (tcall.pc = "counted" /\ tcall.trace.method = "trace_block") =>
        LET flat == tcall.trace.flat
        IN /\ ~tcall.result.raised
           /\ tcall.result.cnt =
                 Cardinality({i \in 1..Len(flat) :
                                 /\ flat[i].dict
                                 /\ flat[i].type \in {"call", "create", "suicide"}
                                 /\ Lower(flat[i].to) = Lower(tcall.target)
                                 /\ Amount(flat[i].value) > 0})

\* a list with a create and a reward paying the target: the count is 1
C15_Witness ==
    /\ tcall.pc = "counted" /\ tcall.trace.method = "trace_block"
    /\ Len(tcall.trace.flat) = 2
    /\ tcall.trace.flat[1].type = "reward" /\ tcall.trace.flat[2].type = "create"
    /\ tcall.target = <<"B", "a">>
    /\ tcall.result.cnt = 1

\* a call tree all of whose nodes are dicts with a value that is an amount or
\* missing and whose "calls" are lists
RECURSIVE WellFormedTree(_)
WellFormedTree(node) ==
    /\ node.dict /\ node.calls_ok
    /\ IsAmount(node.value) \/ node.value = AbsentVal
    /\ \A i \in 1..Len(node.calls) : WellFormedTree(node.calls[i])

\* the nodes of a tree, at every depth, that pay the target an amount > 0
RECURSIVE PayingNodes(_, _)
PayingNodes(node, target) ==
    (IF Lower(node.to) = Lower(target) /\ Amount(node.value) > 0 THEN 1 ELSE 0)
    + SumSeq([i \in 1..Len(node.calls) |-> PayingNodes(node.calls[i], target)])

\* C16: for method B and a payload of well-formed call trees, bare or under
\* "result", the count is the number of nodes, roots and nested children at every
\* depth, whose to is the target and whose value is strictly positive.
C16_TreeCount ==
    (/\ tcall.pc = "counted" /\ tcall.trace.method = "debug_trace"
     /\ \A i \in 1..Len(tcall.trace.trees) :
           tcall.trace.trees[i].dict /\ WellFormedTree(tcall.trace.trees[i].node)) =>
        /\ ~tcall.result.raised
        /\ tcall.result.cnt =
              SumSeq([i \in 1..Len(tcall.trace.trees) |->
                         PayingNodes(tcall.trace.trees[i].node, tcall.target)])

\* a tree of depth three whose root, child and grandchild all pay the target,
\* followed by a second tree: the count is 4
C16_Witness ==
    /\ tcall.pc = "counted" /\ tcall.trace.method = "debug_trace"
    /\ Len(tcall.trace.trees) = 2
    /\ \A i \in 1..2 : tcall.trace.trees[i].dict /\ WellFormedTree(tcall.trace.trees[i].node)
    /\ ~tcall.trace.trees[1].wrapped
    /\ Len(tcall.trace.trees[1].node.calls) = 1
    /\ Len(tcall.trace.trees[1].node.calls[1].calls) = 1
    /\ tcall.result.cnt = 4

\* the same trace with every amount written in the encoding enc
RecodeVal(v, enc) == IF IsAmount(v) THEN Val(enc, Amount(v)) ELSE v
RECURSIVE RecodeNode(_, _)
RecodeNode(node, enc) ==
    [node EXCEPT !.value = RecodeVal(node.value, enc),
                 !.calls = [i \in 1..Len(node.calls) |-> RecodeNode(node.calls[i], enc)]]
RecodeTrace(tr, enc) ==
    [tr EXCEPT !.flat = [i \in 1..Len(tr.flat) |->
                            [tr.flat[i] EXCEPT !.value = RecodeVal(tr.flat[i].value, enc)]],
               !.trees = [i \in 1..Len(tr.trees) |->
                            [tr.trees[i] EXCEPT !.node = RecodeNode(tr.trees[i].node, enc)]]]

\* C17: under both methods the count does not depend on whether an amount is
\* written as a hexadecimal string, a decimal string or an integer: the count of
\* the trace is the count of the same trace with every amount in one encoding.
C17_EncodingIndependent ==
    tcall.pc = "counted" =>
        \A enc \in Encodings :
            CountInternalReceives(RecodeTrace(tcall.trace, enc), tcall.target) = tcall.result

\* a list whose two entries pay the target the largest amount, one as a hexadecimal
\* and one as a decimal string
C17_Witness ==
    /\ tcall.pc = "counted" /\ tcall.trace.method = "trace_block"
    /\ Len(tcall.trace.flat) = 2
    /\ tcall.trace.flat[1].value = StrV(HexStr(MaxAmount))
    /\ tcall.trace.flat[2].value = StrV(DecStr(MaxAmount))
    /\ tcall.result.cnt = 2

\* a malformed entry or node: no dict, a value that is no number, or "calls" that
\* is no list
BadVal(v) == ~IsAmount(v) /\ v \notin {AbsentVal, StrV(<<>>)}
Malformed(node) == ~node.dict \/ BadVal(node.value) \/ ~node.calls_ok

\* the same trace without its malformed entries and nodes
RECURSIVE CleanNodes(_)
CleanNodes(ns) ==
    IF ns = <<>> THEN <<>>
    ELSE IF Malformed(Head(ns)) THEN CleanNodes(Tail(ns))
    ELSE <<[Head(ns) EXCEPT !.calls = CleanNodes(Head(ns).calls)]>> \o CleanNodes(Tail(ns))
RECURSIVE CleanEntries(_)
CleanEntries(es) ==
    IF es = <<>> THEN <<>>
    ELSE IF ~Head(es).dict \/ Malformed(Head(es).node) THEN CleanEntries(Tail(es))
    ELSE <<[Head(es) EXCEPT !.node = CleanNodes(<<Head(es).node>>)[1]]>>
         \o CleanEntries(Tail(es))
CleanTrace(tr) ==
    [tr EXCEPT !.flat = SelectSeq(tr.flat, LAMBDA t : t.dict /\ ~BadVal(t.value)),
               !.trees = CleanEntries(tr.trees)]

\* C18: for every payload with malformed entries or nodes (an entry that is no
\* dict, a value that cannot be parsed, children that are no list),
\* count_internal_receives does not raise and returns the count of the payload
\* without the malformed entries and nodes.
C18_MalformedSkipped ==
    tcall.pc = "counted" =>
        /\ ~tcall.result.raised
        /\ tcall.result.cnt = CountInternalReceives(CleanTrace(tcall.trace), tcall.target).cnt

----------------------------------------------------------------------------
(* Properties of the balance and code lookups *)

\* C19: when the balance lookup of some addresses fails (an error item, a missing
\* or null result, a value that is no number), the mapping returned by
\* batch_get_balance or get_balances still has one key for every requested address,
\* maps exactly the failed addresses to null and every other address to its balance
\* in ETH, and the fetch does not raise.
C19_BalanceIsolation ==
    (lookup.fn \in {"batch_get_balance", "get_balances"} /\ lookup.pc # "raised"
        /\ lookup.at >= Len(lookup.addrs)) =>
        /\ Len(lookup.answers) = Len(lookup.addrs)
        /\ DOMAIN lookup.out =
              {LookupKey(lookup.fn, lookup.addrs[i]) : i \in 1..Len(lookup.addrs)}
        /\ \A i \in 1..Len(lookup.addrs) :
              lookup.out[LookupKey(lookup.fn, lookup.addrs[i])] =
                  (IF lookup.answers[i].kind = "ok"
                   THEN [k |-> "eth", wei |-> lookup.answers[i].wei]
                   ELSE NoBalance)

\* batch_get_balance of three addresses in two batches: one lookup answered with an
\* error, one with a string that is no number, one with the largest balance
C19_Witness ==
    /\ lookup.pc = "done" /\ lookup.fn = "batch_get_balance"
    /\ Len(lookup.addrs) = 3 /\ lookup.batch_size = 2
    /\ lookup.answers[1].kind = "error"
    /\ lookup.answers[2].kind = "ok" /\ lookup.answers[2].wei = MaxAmount
    /\ lookup.answers[3].kind = "junk"
    /\ lookup.out[Lower(lookup.addrs[1])] = NoBalance
    /\ lookup.out[Lower(lookup.addrs[2])] = [k |-> "eth", wei |-> MaxAmount]

\* C20: when the eth_getCode lookup of one address of a batch fails (its batch entry
\* is an error), the failure is recorded for that address only, as a missing value
\* that differs from what a successful lookup that found empty code records, and
\* the other addresses of the batch are still classified.
C20_CodeFailureDistinct ==
    (lookup.fn = "batch_get_code" /\ lookup.pc = "done") =>
        /\ DOMAIN lookup.out = {Lower(lookup.addrs[i]) : i \in 1..Len(lookup.addrs)}
        /\ \A i \in 1..Len(lookup.addrs) :
              lookup.answers[i].kind = "ok" =>
                  lookup.out[Lower(lookup.addrs[i])] = (lookup.answers[i].s # EmptyCode)
        /\ \A i, j \in 1..Len(lookup.addrs) :
              (lookup.answers[i].kind = "error"
                  /\ lookup.answers[j].kind = "ok" /\ lookup.answers[j].s = EmptyCode) =>
                  lookup.out[Lower(lookup.addrs[i])] # lookup.out[Lower(lookup.addrs[j])]

----------------------------------------------------------------------------
(* Properties of the aggregation *)

\* C25: for given blocks and a given answer of eth_getCode per address, the
\* counters sent_txs, received_txs, sent_to_contract_txs and
\* internal_recv_from_contract_txs and the set of observed addresses that
\* scan_range has after the blocks, processed in whatever order, are those it has
\* after processing them in ascending order, and so are the address and the
\* counters of every row.
C25_OrderIndependent ==
    LET ref == CountBlocks(EmptyAcc, ChainBlocks, agg.blocks, scan.check_success,
                           scan.trace_enabled, agg.code)
        addr_list == Limited(Sorted(ref.seen), scan.balance_limit)
    IN /\ scan.pc \in {"balances", "done"} =>
             /\ sent_txs = ref.sent
             /\ received_txs = ref.recv
             /\ sent_to_contract_txs = ref.toc
             /\ internal_recv_from_contract_txs = ref.internal
             /\ seen_addrs = ref.seen
       /\ scan.pc = "done" =>
             /\ Len(rows) = Len(addr_list)
             /\ \A i \in 1..Len(rows) :
                   rows[i] = BuildRow(addr_list[i], rows[i].eth_balance,
                                      Get(ref.sent, addr_list[i]), Get(ref.recv, addr_list[i]),
                                      Get(ref.toc, addr_list[i]),
                                      Get(ref.internal, addr_list[i]))

\* three blocks were processed in descending order in a scan with tracing, two
\* senders have sent to the same contract, and the rows are out
C25_Witness ==
    /\ scan.pc = "done" /\ scan.trace_enabled
    /\ agg.blocks = <<1, 2, 3>> /\ agg.done = <<3, 2, 1>>
    /\ Get(sent_to_contract_txs, <<"a", "b">>) = 1
    /\ Get(sent_to_contract_txs, <<"c", "c">>) = 1
    /\ Get(internal_recv_from_contract_txs, <<"a", "b">>) = 2
    /\ Len(rows) = 3

----------------------------------------------------------------------------
(* Properties of classify_for_address *)

\* C28: the record classify_for_address returns satisfies
\* total_txs = external_txs + internal_txs and external_txs = sent_txs +
\* received_txs, for every list of external and internal transactions.
C28_StatsTotals ==
    stats.pc = "returned" =>
        /\ stats.row.total_txs = stats.row.external_txs + stats.row.internal_txs
        /\ stats.row.external_txs = stats.row.sent_txs + stats.row.received_txs

----------------------------------------------------------------------------
(* Properties of get_block_with_retries *)

GetBlockEnded == getblock.pc \in {"returned", "raised"}

\* C29: get_block_with_retries ends for every sequence of network errors, invalid
\* responses and unexpected errors, also when every reconnection fails: it makes
\* at most max_retry + 1 attempts, a pass of the loop is only started after at
\* most max_retry attempts, and it eventually returns the block or raises.
C29_GetBlockTerminates ==
    /\ [](/\ getblock.attempt <= getblock.max_retry + 1
          /\ getblock.pc = "try" => getblock.attempt <= getblock.max_retry
          /\ Len(getblock.errors) \in {getblock.attempt, getblock.attempt - 1}
          /\ getblock.pc = "returned" => Len(getblock.errors) = getblock.attempt - 1
          /\ getblock.pc = "raised" => Len(getblock.errors) = getblock.attempt)
    /\ <>GetBlockEnded
    /\ [](GetBlockEnded => []GetBlockEnded)

\* a call with the default max_retry raised at attempt max_retry + 1 after errors
\* of every kind, among them network errors after which no endpoint could be
\* reconnected
C29_Witness ==
    /\ getblock.pc = "raised"
    /\ getblock.max_retry = MaxBlockRetry
    /\ getblock.attempt = getblock.max_retry + 1
    /\ {"network", "network_no_endpoint", "invalid", "unexpected"}
          \subseteq Range(getblock.errors)

====
